---- MODULE Spec2Model ----
(***************************************************************************)
(* A model of astro-loader-quarto: the FileCache (src/utils/cache.ts), the  *)
(* field mapper and metadata normalizer, the schema generator and validator *)
(* and the load() pipeline of quartoLoader (src/loader.ts).                 *)
(*                                                                          *)
(* JavaScript runs one synchronous stretch at a time: an action of this     *)
(* model is the code between two awaits.                                    *)
(***************************************************************************)
EXTENDS Integers, Sequences, FiniteSets, TLC

VARIABLES
    cache,      \* FileCache.cache: the Map, as the sequence of its entries in insertion order
    maxSize,    \* FileCache.maxSize
    fs,         \* the file system: path -> stat record
    ops,        \* FileCache calls suspended at `await stat(path)`
    prev,       \* the FileCache call that completed last (history)
    arg,        \* the argument a pure function of the library is applied to
    res,        \* what it returned or threw
    config,     \* the QuartoLoaderConfig and the files the listing's glob matches
    run,        \* the index in Runs of the load under way or next to start
    pc,         \* where load() stands
    todo,       \* listingsToLoad from the listing being processed on
    cur,        \* the locals of the loop body of load() for that listing
    store,      \* the store.set calls of the load under way, in order
    log,        \* the warnings and errors logged by the load under way
    hooks,      \* the filter and transform invocations of the load under way (history)
    results     \* how each finished load ended and what it stored (history)

cacheVars == <<cache, maxSize, fs, ops, prev>>
fnVars == <<arg, res>>
loaderVars == <<config, run, pc, todo, cur, store, log, hooks, results>>

vars == <<cacheVars, fnVars, loaderVars>>

(***************************************************************************)
(* Values                                                                   *)
(***************************************************************************)
Undefined == "undefined"

\* A JavaScript value: its type tag and its content as text.
Undef == [t |-> "undefined", v |-> ""]
Str(s) == [t |-> "string", v |-> s]
DateV(s) == [t |-> "date", v |-> s]
Bool(b) == [t |-> "boolean", v |-> IF b THEN "true" ELSE "false"]
Num(s) == [t |-> "number", v |-> s]
Null == [t |-> "null", v |-> ""]
\* An array of values that are no arrays.
Arr(elems) == [t |-> "array", v |-> elems]

\* JavaScript truthiness.
Truthy(x) ==
    CASE x.t = "undefined" -> FALSE
      [] x.t = "boolean" -> x.v = "true"
      [] x.t = "string" -> x.v # ""
      [] x.t = "null" -> FALSE
      [] x.t = "number" -> x.v # "0"
      [] OTHER -> TRUE

\* A plain object: its own properties [k, v] in insertion order (the order of
\* Object.entries). Property names of Object.prototype are not used as keys.
ObjKeys(o) == {o[i].k : i \in 1..Len(o)}
Has(o, k) == \E i \in 1..Len(o) : o[i].k = k
\* o[k]: undefined for a missing property.
Get(o, k) == IF Has(o, k) THEN o[CHOOSE i \in 1..Len(o) : o[i].k = k].v ELSE Undef
\* o[k] = v
Put(o, k, v) ==
    IF Has(o, k)
    THEN [i \in 1..Len(o) |-> IF o[i].k = k THEN [k |-> k, v |-> v] ELSE o[i]]
    ELSE Append(o, [k |-> k, v |-> v])

\* --------------------------------------------------------- field mappings
\* A FieldMappings table is a function from source key to target key.
DEFAULT_FIELD_MAPPINGS ==
    ("title" :> "title") @@ ("description" :> "description") @@
    ("author" :> "author") @@ ("date" :> "pubDate") @@
    ("date-modified" :> "updatedDate") @@ ("image" :> "heroImage") @@
    ("categories" :> "categories") @@ ("tags" :> "tags") @@ ("draft" :> "draft")

\* No caller-supplied table (undefined).
NoMappings == <<>>

\* mappings[key]: "" stands for undefined (both are falsy).
Lookup(mappings, key) == IF key \in DOMAIN mappings THEN mappings[key] ELSE ""

mergeFieldMappings(custom) ==
    [k \in DOMAIN DEFAULT_FIELD_MAPPINGS \cup DOMAIN custom |->
        IF k \in DOMAIN custom THEN custom[k] ELSE DEFAULT_FIELD_MAPPINGS[k]]

\* No function has been applied (the specifications of the stateful parts).
NotApplied == [applied |-> FALSE]
FnIdle == arg = NotApplied /\ res = NotApplied

NoError == [name |-> "none", quartoField |-> "", mappedField |-> "", filePath |-> ""]
Returned(value) == [applied |-> TRUE, threw |-> FALSE, value |-> value, error |-> NoError]
Threw(error) == [applied |-> TRUE, threw |-> TRUE, value |-> <<>>, error |-> error]

FieldMappingConflictError(key, mappedKey, filePath) ==
    [name |-> "FieldMappingConflictError", quartoField |-> key,
     mappedField |-> mappedKey, filePath |-> filePath]

\* The loop of applyFieldMappings from entry i on, result being built.
RECURSIVE MapFrom(_, _, _, _, _)
MapFrom(metadata, mappings, filePath, i, result) ==
    IF i > Len(metadata)
    THEN Returned(result)
    ELSE LET key == metadata[i].k
             value == metadata[i].v
             mappedKey == Lookup(mappings, key)
         IN  IF mappedKey # "" /\ mappedKey # key
             THEN IF Get(metadata, mappedKey) # Undef
                  THEN Threw(FieldMappingConflictError(key, mappedKey, filePath))
                  ELSE MapFrom(metadata, mappings, filePath, i + 1,
                               Put(result, mappedKey, value))
             ELSE MapFrom(metadata, mappings, filePath, i + 1, Put(result, key, value))

\* applyFieldMappings with the conflict test `mappedKey in metadata`.
RECURSIVE MapFromPresent(_, _, _, _, _)
MapFromPresent(metadata, mappings, filePath, i, result) ==
    IF i > Len(metadata)
    THEN Returned(result)
    ELSE LET key == metadata[i].k
             value == metadata[i].v
             mappedKey == Lookup(mappings, key)
         IN  IF mappedKey # "" /\ mappedKey # key
             THEN IF Has(metadata, mappedKey)
                  THEN Threw(FieldMappingConflictError(key, mappedKey, filePath))
                  ELSE MapFromPresent(metadata, mappings, filePath, i + 1,
                                      Put(result, mappedKey, value))
             ELSE MapFromPresent(metadata, mappings, filePath, i + 1,
                                 Put(result, key, value))

applyFieldMappingsPresent(metadata, mappings, filePath) ==
    MapFromPresent(metadata, mappings, filePath, 1, <<>>)

applyFieldMappings(metadata, mappings, filePath) ==
    MapFrom(metadata, mappings, filePath, 1, <<>>)

\* ------------------------------------------------------------ generateSlug
\* Text that is rewritten character by character is a sequence of characters.
Digits == {"0", "1", "2", "3", "4", "5", "6", "7", "8", "9"}
LowerLetters == {"a", "b", "c", "d", "e", "f", "g", "h", "i", "j", "k", "l", "m",
                 "n", "o", "p", "q", "r", "s", "t", "u", "v", "w", "x", "y", "z"}
UpperLetters == {"A", "B", "C", "D", "M", "P"}
\* String.prototype.toLowerCase, one character.
ToLower(c) ==
    CASE c = "A" -> "a"
      [] c = "B" -> "b"
      [] c = "C" -> "c"
      [] c = "D" -> "d"
      [] c = "M" -> "m"
      [] c = "P" -> "p"
      [] OTHER -> c
\* \w and \s of the regular expressions.
IsWord(c) == c \in Digits \cup LowerLetters \cup UpperLetters \cup {"_"}
IsSpace(c) == c = " "

\* String.prototype.toLowerCase
toLowerCase(s) == [i \in 1..Len(s) |-> ToLower(s[i])]

\* /^\d{4}-\d{2}-\d{2}-/ matches at the start of s.
HasDatePrefix(s) ==
    /\ Len(s) >= 11
    /\ \A i \in {1, 2, 3, 4, 6, 7, 9, 10} : s[i] \in Digits
    /\ \A i \in {5, 8, 11} : s[i] = "-"
StripDatePrefix(s) == IF HasDatePrefix(s) THEN SubSeq(s, 12, Len(s)) ELSE s

\* .replace(/[^\w\s-]/g, '')
KeepSlugChars(s) == SelectSeq(s, LAMBDA c : IsWord(c) \/ IsSpace(c) \/ c = "-")

\* .replace(/[\s_]+/g, '-'): each run of spaces and underscores becomes one hyphen.
RECURSIVE CollapseRuns(_, _)
CollapseRuns(s, inRun) ==
    IF s = <<>> THEN <<>>
    ELSE IF IsSpace(Head(s)) \/ Head(s) = "_"
         THEN (IF inRun THEN <<>> ELSE <<"-">>) \o CollapseRuns(Tail(s), TRUE)
         ELSE <<Head(s)>> \o CollapseRuns(Tail(s), FALSE)

\* .replace(/^-+|-+$/g, '')
RECURSIVE TrimLeft(_)
TrimLeft(s) == IF s # <<>> /\ Head(s) = "-" THEN TrimLeft(Tail(s)) ELSE s
RECURSIVE TrimRight(_)
TrimRight(s) ==
    IF s # <<>> /\ s[Len(s)] = "-" THEN TrimRight(SubSeq(s, 1, Len(s) - 1)) ELSE s

\* A file path: its directories, the file name without its extension and the
\* extension (both as characters).
Path(dir, stem, ext) == [dir |-> dir, stem |-> stem, ext |-> ext]
\* path.basename(filePath, '.qmd'): the suffix is kept when it is the whole
\* name of a file in a directory.
Basename(filePath) ==
    IF filePath.ext = <<"q", "m", "d">> /\ filePath.stem # <<>> THEN filePath.stem
    ELSE filePath.stem \o <<".">> \o filePath.ext

\* generateSlug(filePath, title, undefined): the loader passes no slugify.
generateSlug(filePath) ==
    TrimRight(TrimLeft(CollapseRuns(
        KeepSlugChars(toLowerCase(StripDatePrefix(Basename(filePath)))), FALSE)))

\* -------------------------------------------------------- extractMetadata
\* The date texts `new Date(text)` parses, with their time values.
DateTime == ("2025-01-01" :> 1) @@ ("2025-03-01" :> 2)

normalizeDate(date) ==
    IF date.t = "date" THEN date
    ELSE IF date.t = "string" /\ date.v \in DOMAIN DateTime THEN DateV(date.v)
    ELSE date

\* extractMetadata that copies the fields and normalizes none.
copyMetadata(frontmatter) == frontmatter

\* The documents of the model carry no author, categories, tags or
\* date-modified; those branches of extractMetadata leave them unchanged.
extractMetadata(frontmatter) ==
    LET dated == IF Truthy(Get(frontmatter, "date"))
                 THEN Put(frontmatter, "date", normalizeDate(Get(frontmatter, "date")))
                 ELSE frontmatter
    IN  IF Get(dated, "draft") # Undef
        THEN Put(dated, "draft", Bool(Truthy(Get(dated, "draft"))))
        ELSE dated

\* ------------------------------------------------------ normalizeMetadata
RECURSIVE inheritListingDefaults(_, _)
inheritListingDefaults(metadata, defaults) ==
    IF defaults = <<>> THEN metadata
    ELSE inheritListingDefaults(
            IF Get(metadata, Head(defaults).k) = Undef
            THEN Put(metadata, Head(defaults).k, Head(defaults).v)
            ELSE metadata,
            Tail(defaults))

\* normalizeMetadata: the entry, or the error applyFieldMappings throws. The
\* documents of the model have no image, so step 3 changes nothing.
normalizeMetadata(raw, filePath, fieldMappings, listingDefaults) ==
    LET mapped == applyFieldMappings(inheritListingDefaults(raw, listingDefaults),
                                     fieldMappings, filePath)
        id == generateSlug(filePath)
        metadata == IF Get(mapped.value, "draft") = Undef
                    THEN Put(mapped.value, "draft", Bool(FALSE))
                    ELSE mapped.value
    IN  IF mapped.threw THEN mapped
        ELSE Returned([id |-> id, slug |-> id, data |-> metadata])

\* ------------------------------------------------- applySortConfiguration
\* An entry handed to applySortConfiguration is an object; a[field] reads its
\* own property of that name.
EntryProp(entry, field) == Get(entry, field)

\* The NormalizedEntry {id, slug, data} as the object it is: load() sorts
\* these. src is the history field of the model.
AsObject(e) ==
    <<[k |-> "id", v |-> [t |-> "string", v |-> e.id]],
      [k |-> "slug", v |-> [t |-> "string", v |-> e.slug]],
      [k |-> "data", v |-> [t |-> "object", v |-> e.data]],
      [k |-> "src", v |-> [t |-> "object", v |-> e.src]]>>
AsEntry(o) ==
    [id |-> Get(o, "id").v, slug |-> Get(o, "slug").v,
     data |-> Get(o, "data").v, src |-> Get(o, "src").v]

\* The numbers the model compares, with their values.
NumberValue == ("1" :> 1) @@ ("2" :> 2) @@ ("5" :> 5)

\* String.prototype.localeCompare on the texts the model sorts.
Collation == ("Alpha" :> 1) @@ ("Beta" :> 2) @@ ("Delta" :> 3) @@ ("Gamma" :> 4)

\* The comparison of two defined values.
CompareValues(aVal, bVal) ==
    IF aVal.t = "date" /\ bVal.t = "date" THEN DateTime[aVal.v] - DateTime[bVal.v]
    ELSE IF aVal.t = "string" /\ bVal.t = "string" THEN Collation[aVal.v] - Collation[bVal.v]
    ELSE IF aVal.t = "number" /\ bVal.t = "number"
         THEN NumberValue[aVal.v] - NumberValue[bVal.v]
    ELSE 0

\* The comparator of applySortConfiguration; a sort field is the result of
\* sortField.split(" "), e.g. <<"date", "desc">>.
RECURSIVE SortCompare(_, _, _)
SortCompare(a, b, sorts) ==
    IF sorts = <<>> THEN 0
    ELSE LET field == Head(sorts)[1]
             desc == Len(Head(sorts)) >= 2 /\ Head(sorts)[2] \in {"desc", "DESC", "Desc"}
             aVal == EntryProp(a, field)
             bVal == EntryProp(b, field)
         IN  IF aVal = Undef /\ bVal = Undef THEN SortCompare(a, b, Tail(sorts))
             ELSE IF aVal = Undef THEN 1
             ELSE IF bVal = Undef THEN -1
             ELSE IF CompareValues(aVal, bVal) # 0
                  THEN (IF desc THEN -CompareValues(aVal, bVal) ELSE CompareValues(aVal, bVal))
                  ELSE SortCompare(a, b, Tail(sorts))

\* An insertion that puts x before the elements it is equal to.
RECURSIVE InsertBeforeEqual(_, _, _)
InsertBeforeEqual(sorted, x, sorts) ==
    IF sorted = <<>> THEN <<x>>
    ELSE IF SortCompare(sorted[Len(sorted)], x, sorts) < 0 THEN Append(sorted, x)
    ELSE Append(InsertBeforeEqual(SubSeq(sorted, 1, Len(sorted) - 1), x, sorts),
                sorted[Len(sorted)])

\* Array.prototype.sort is stable: x goes behind every element not greater.
RECURSIVE InsertSorted(_, _, _)
InsertSorted(sorted, x, sorts) ==
    IF sorted = <<>> THEN <<x>>
    ELSE IF SortCompare(sorted[Len(sorted)], x, sorts) <= 0 THEN Append(sorted, x)
    ELSE Append(InsertSorted(SubSeq(sorted, 1, Len(sorted) - 1), x, sorts),
                sorted[Len(sorted)])

RECURSIVE SortFrom(_, _, _, _)
SortFrom(entries, i, sorted, sorts) ==
    IF i > Len(entries) THEN sorted
    ELSE SortFrom(entries, i + 1, InsertSorted(sorted, entries[i], sorts), sorts)

\* [...entries].reverse(), whatever the sort configuration.
reverseEntries(entries, sortConfig) ==
    [i \in 1..Len(entries) |-> entries[Len(entries) + 1 - i]]

\* sortConfig <<>> stands for no sort configuration.
applySortConfiguration(entries, sortConfig) ==
    IF sortConfig = <<>> THEN entries ELSE SortFrom(entries, 1, <<>>, sortConfig)

\* ----------------------------------------------------------------- schema
\* A zod type: its typeName, whether it is .optional(), whether it has
\* .default(false), and for z.array(...) the typeName of the element type.
ZType(kind, optional, hasDefault) ==
    [kind |-> kind, optional |-> optional, hasDefault |-> hasDefault, element |-> "none"]
ZArray(element, optional) ==
    [kind |-> "array", optional |-> optional, hasDefault |-> FALSE, element |-> element]

commonFields ==
    ("title" :> ZType("string", FALSE, FALSE)) @@
    ("description" :> ZType("string", TRUE, FALSE)) @@
    ("author" :> ZType("stringOrStrings", TRUE, FALSE)) @@
    ("pubDate" :> ZType("date", FALSE, FALSE)) @@
    ("updatedDate" :> ZType("date", TRUE, FALSE)) @@
    ("heroImage" :> ZType("string", TRUE, FALSE)) @@
    ("categories" :> ZArray("string", TRUE)) @@
    ("tags" :> ZArray("string", TRUE)) @@
    ("draft" :> ZType("boolean", FALSE, TRUE))

\* The typeName inferTypeFromValue gives a value that is no array.
InferredKind(value) ==
    CASE value.t = "date" -> "date"
      [] value.t = "string" -> "string"
      [] value.t = "number" -> "number"
      [] value.t = "boolean" -> "boolean"
      [] OTHER -> "unknown"

inferTypeFromValue(value) ==
    IF value.t = "array"
    THEN IF value.v = <<>> THEN ZArray("unknown", FALSE)
         ELSE ZArray(InferredKind(value.v[1]), FALSE)
    ELSE ZType(InferredKind(value), FALSE, FALSE)

\* inferFieldType that never adds .optional() to the type of the first value.
inferFieldTypeOfFirst(fieldName, values) ==
    LET definedValues == SelectSeq(values, LAMBDA v : v # Undef)
    IN  IF fieldName \in DOMAIN commonFields THEN commonFields[fieldName]
        ELSE IF definedValues = <<>> THEN ZType("unknown", TRUE, FALSE)
        ELSE inferTypeFromValue(definedValues[1])

inferFieldType(fieldName, values) ==
    LET definedValues == SelectSeq(values, LAMBDA v : v # Undef)
        baseType == inferTypeFromValue(definedValues[1])
        allSameType == \A i \in 1..Len(definedValues) :
                            inferTypeFromValue(definedValues[i]).kind = baseType.kind
    IN  IF fieldName \in DOMAIN commonFields THEN commonFields[fieldName]
        ELSE IF definedValues = <<>> THEN ZType("unknown", TRUE, FALSE)
        ELSE IF ~allSameType THEN ZType("unknown", TRUE, FALSE)
        ELSE IF Len(definedValues) < Len(values) THEN [baseType EXCEPT !.optional = TRUE]
        ELSE baseType

\* A schema is the shape of a z.object: fields [name, type] in insertion order.
SchemaHas(schema, name) == \E i \in 1..Len(schema) : schema[i].name = name

\* allFieldNames: the keys of all documents in order of first appearance.
RECURSIVE FieldNames(_, _)
FieldNames(keys, seen) ==
    IF keys = <<>> THEN seen
    ELSE FieldNames(Tail(keys),
                    IF \E i \in 1..Len(seen) : seen[i] = Head(keys)
                    THEN seen ELSE Append(seen, Head(keys)))

RECURSIVE AllKeys(_)
AllKeys(documents) ==
    IF documents = <<>> THEN <<>>
    ELSE [i \in 1..Len(Head(documents)) |-> Head(documents)[i].k] \o AllKeys(Tail(documents))

generateSchema(documents) ==
    LET names == FieldNames(AllKeys(documents), <<>>)
        inferred == [i \in 1..Len(names) |->
                        [name |-> names[i],
                         type |-> inferFieldType(names[i],
                                    [d \in 1..Len(documents) |-> Get(documents[d], names[i])])]]
        titled == IF ~SchemaHas(inferred, "title")
                  THEN Append(inferred, [name |-> "title", type |-> commonFields["title"]])
                  ELSE inferred
    IN  IF ~SchemaHas(titled, "pubDate") /\ ~SchemaHas(titled, "date")
        THEN Append(titled, [name |-> "pubDate", type |-> commonFields["pubDate"]])
        ELSE titled

\* createListingSchema with no `schema` in the loader configuration and no
\* field-required in the listing.
createListingSchema(documents) == generateSchema(documents)

\* -------------------------------------------------------------- validator
\* A zod type of the typeName accepts the value, which is no array.
AcceptsKind(kind, value) ==
    CASE kind = "unknown" -> TRUE
      [] kind = "string" -> value.t = "string"
      [] kind = "date" -> value.t = "date"
      [] kind = "boolean" -> value.t = "boolean"
      [] kind = "number" -> value.t = "number"
      [] OTHER -> FALSE

\* z.array(element) accepts the value.
AcceptsArray(element, value) ==
    /\ value.t = "array"
    /\ \A i \in 1..Len(value.v) : AcceptsKind(element, value.v[i])

\* The zod type accepts the value.
Accepts(type, value) ==
    IF value = Undef
    THEN type.optional \/ type.hasDefault \/ type.kind = "unknown"
    ELSE CASE type.kind = "array" -> AcceptsArray(type.element, value)
           [] type.kind = "stringOrStrings" ->
                value.t = "string" \/ AcceptsArray("string", value)
           [] OTHER -> value.t # "array" /\ AcceptsKind(type.kind, value)

\* What the zod type parses the accepted value to: .default(false) fills undefined.
Parsed(type, value) == IF value = Undef /\ type.hasDefault THEN Bool(FALSE) ELSE value

\* The output of z.object(...).safeParse: the keys of the shape in its order,
\* a key being set when it is in the input or its parsed value is defined;
\* keys outside the shape are stripped.
RECURSIVE ParsedObject(_, _)
ParsedObject(entry, schema) ==
    IF schema = <<>> THEN <<>>
    ELSE LET f == Head(schema)
             value == Parsed(f.type, Get(entry, f.name))
         IN  (IF value # Undef \/ Has(entry, f.name)
              THEN <<[k |-> f.name, v |-> value]>> ELSE <<>>)
             \o ParsedObject(entry, Tail(schema))

validateEntry(entry, schema) ==
    LET bad == SelectSeq(schema, LAMBDA f : ~Accepts(f.type, Get(entry, f.name)))
    IN  IF bad = <<>>
        THEN [success |-> TRUE, data |-> ParsedObject(entry, schema), errors |-> <<>>]
        ELSE [success |-> FALSE, data |-> <<>>,
              errors |-> [i \in 1..Len(bad) |-> bad[i].name]]

ValidationError(errors) ==
    [name |-> "ValidationError", quartoField |-> "", mappedField |-> "", filePath |-> "",
     errors |-> errors]

\* validateEntryOrThrow that throws whatever the schema says.
validateEntryRejecting(entry, schema) == Threw(ValidationError(<<>>))

\* validateEntryOrThrow that hands the entry back whatever the schema says.
validateEntryUnchecked(entry, schema) == Returned(entry)

validateEntryOrThrow(entry, schema) ==
    IF validateEntry(entry, schema).success
    THEN Returned(validateEntry(entry, schema).data)
    ELSE Threw(ValidationError(validateEntry(entry, schema).errors))

\* ------------------------------------------------------- markdown-content
NoContent == <<"ENOENT">>

\* readRenderedMarkdown that hands back whatever the read gave.
readRenderedMarkdownRaw(content) ==
    [applied |-> TRUE, threw |-> FALSE, value |-> content,
     error |-> [name |-> "none", quartoField |-> "", mappedField |-> "", filePath |-> ""]]

\* gray-matter's `content`: the lines behind the closing delimiter of the header.
RECURSIVE AfterDelimiter(_)
AfterDelimiter(lines) ==
    IF lines = <<>> THEN <<>>
    ELSE IF Head(lines) = "---" THEN Tail(lines)
    ELSE AfterDelimiter(Tail(lines))

\* readRenderedMarkdown on what readFile gives: the body, or the error thrown.
readRenderedMarkdown(content) ==
    IF content = NoContent
    THEN Threw([name |-> "Error", quartoField |-> "", mappedField |-> "", filePath |-> ""])
    ELSE IF content # <<>> /\ Head(content) = "---"
         THEN Returned(AfterDelimiter(Tail(content)))
         ELSE Returned(content)

\* path.relative(from, to) for a directory `to` under `from`.
Relative(from, to) == SubSeq(to, Len(from) + 1, Len(to))

matchQmdToMd(qmdPath, quartoRoot, outputDir) ==
    Path(outputDir \o Relative(quartoRoot, qmdPath.dir), qmdPath.stem,
         IF qmdPath.ext = <<"q", "m", "d">> THEN <<"m", "d">> ELSE qmdPath.ext)

\* path.relative(process.cwd(), absoluteMdPath)
RelativePath(from, path) == [path EXCEPT !.dir = Relative(from, path.dir)]

\* ----------------------------------------------------------------- hooks
\* The filter entry => entry.draft === true.
CallFilterDrafts(hook, data) ==
    CASE hook = "notDraft" -> Get(data, "draft") = Bool(TRUE)

\* config.filter: absent, or entry => entry.draft !== true.
CallFilter(hook, data) ==
    CASE hook = "notDraft" -> Get(data, "draft") # Bool(TRUE)

\* config.transform: absent, or entry => ({...entry, customField: 'transformed'}).
CallTransform(hook, data) ==
    CASE hook = "addField" -> Put(data, "customField", Str("transformed"))

\* ------------------------------------------------------ listing selection
NoListing == [id |-> "", sort |-> <<>>, fields |-> <<>>]

\* findListing: listings.find(l => l.id === listingId); NoListing for undefined.
findListing(listings, listingId) ==
    IF \E i \in 1..Len(listings) : listings[i].id = listingId
    THEN listings[CHOOSE i \in 1..Len(listings) :
                    /\ listings[i].id = listingId
                    /\ \A j \in 1..(i - 1) : listings[j].id # listingId]
    ELSE NoListing

ListingNotFoundError(listingId, availableListings) ==
    [name |-> "ListingNotFoundError", listingId |-> listingId,
     availableListings |-> availableListings]

ListingIds(listings) == [i \in 1..Len(listings) |-> listings[i].id]

\* The loop over an array of listing ids.
RECURSIVE SelectFrom(_, _, _)
SelectFrom(ids, allListings, listingsToLoad) ==
    IF ids = <<>> THEN Returned(listingsToLoad)
    ELSE IF findListing(allListings, Head(ids)) = NoListing
         THEN Threw(ListingNotFoundError(Head(ids), ListingIds(allListings)))
         ELSE SelectFrom(Tail(ids), allListings,
                         Append(listingsToLoad, findListing(allListings, Head(ids))))

\* The selection that passes over the ids it does not find.
selectKnownListings(listings, allListings) ==
    IF listings.kind = "all" THEN Returned(allListings)
    ELSE Returned(SelectSeq([i \in 1..Len(listings.ids) |->
                                findListing(allListings, listings.ids[i])],
                            LAMBDA l : l # NoListing))

\* config.listings is "all" (kind "all"), one id (kind "one", ids of length 1)
\* or an array of ids (kind "many").
selectListings(listings, allListings) ==
    CASE listings.kind = "all" -> Returned(allListings)
      [] listings.kind = "one" ->
            IF findListing(allListings, listings.ids[1]) = NoListing
            THEN Threw(ListingNotFoundError(listings.ids[1], ListingIds(allListings)))
            ELSE Returned(<<findListing(allListings, listings.ids[1])>>)
      [] listings.kind = "many" -> SelectFrom(listings.ids, allListings, <<>>)

\* extractListingDefaults: the listing's own values of the inheritable fields.
defaultFields == <<"author", "categories", "date-format", "image", "image-height">>
extractListingDefaults(listing) ==
    LET present == SelectSeq(defaultFields,
                             LAMBDA f : Has(listing.fields, f) /\ Get(listing.fields, f) # Undef)
    IN  [i \in 1..Len(present) |-> [k |-> present[i], v |-> Get(listing.fields, present[i])]]

\* Array.prototype.unshift
Unshift(array, element) == <<element>> \o array

\* Array.prototype.push
Push(array, element) == Append(array, element)

\* ------------------------------------------------------------ the project
\* The project the loader of the model is pointed at.
cwd == <<"proj">>
quartoRoot == cwd \o <<"quarto">>
outputPath == quartoRoot \o <<"_site">>
QmdExt == <<"q", "m", "d">>
MdExt == <<"m", "d">>

alpha == Path(quartoRoot \o <<"posts">>,
              <<"2", "0", "2", "5", "-", "0", "1", "-", "0", "1", "-", "A", "l", "p", "h", "a">>,
              QmdExt)
beta == Path(quartoRoot \o <<"posts">>, <<"b", "e", "t", "a", "_", "p", "o", "s", "t">>, QmdExt)
gamma == Path(quartoRoot \o <<"posts">>, <<"g", "a", "m", "m", "a">>, QmdExt)
broken == Path(quartoRoot \o <<"posts">>, <<"b", "r", "o", "k", "e", "n">>, QmdExt)
clash == Path(quartoRoot \o <<"posts">>, <<"c", "l", "a", "s", "h">>, QmdExt)
delta == Path(quartoRoot \o <<"posts">>,
              <<"D", "e", "l", "t", "a", " ", "n", "o", "t", "e", "s">>, QmdExt)
\* A second file that generateSlug names "alpha"; it is not rendered.
alpha2 == Path(quartoRoot \o <<"posts">>, <<"A", "l", "p", "h", "a", "!">>, QmdExt)
intro == Path(quartoRoot \o <<"tutorials">>, <<"i", "n", "t", "r", "o">>, QmdExt)
\* A post with the file name of the tutorial.
postsIntro == Path(quartoRoot \o <<"posts">>, <<"i", "n", "t", "r", "o">>, QmdExt)

\* The files `posts/*.qmd` may match, and all source files of the project.
Documents == {alpha, beta, gamma, delta, broken, clash, alpha2, postsIntro}
QmdFiles == Documents \cup {intro}

Field(k, v) == [k |-> k, v |-> v]

\* gray-matter's `data` of a source file. broken has a malformed header.
Parses(path) == path # broken
Frontmatter(path) ==
    CASE path = alpha -> <<Field("title", Str("Alpha")), Field("date", Str("2025-01-01"))>>
      [] path = beta -> <<Field("title", Str("Beta")), Field("date", DateV("2025-03-01")),
                          Field("draft", Bool(TRUE))>>
      [] path = gamma -> <<Field("title", Str("Gamma"))>>
      [] path = delta -> <<Field("title", Str("Delta")), Field("date", Str("2025-03-01"))>>
      [] path = clash -> <<Field("title", Str("Clash")), Field("date", Str("2025-01-01")),
                           Field("pubDate", DateV("2025-03-01"))>>
      [] path = alpha2 -> <<Field("title", Str("Alpha again")),
                            Field("date", DateV("2025-03-01"))>>
      [] path = intro -> <<Field("title", Str("Intro")), Field("date", DateV("2025-01-01"))>>
      [] path = postsIntro -> <<Field("title", Str("About the posts")),
                                Field("date", DateV("2025-01-01"))>>

\* The rendered files under the output directory, as lines; intro and alpha2
\* are not rendered.
Rendered(mdPath) ==
    CASE mdPath = Path(outputPath \o <<"posts">>, alpha.stem, MdExt) ->
            <<"---", "title: Alpha", "---", "Alpha body">>
      [] mdPath = Path(outputPath \o <<"posts">>, beta.stem, MdExt) -> <<"Beta body">>
      [] mdPath = Path(outputPath \o <<"posts">>, gamma.stem, MdExt) -> <<"Gamma body">>
      [] mdPath = Path(outputPath \o <<"posts">>, delta.stem, MdExt) -> <<"Delta body">>
      [] mdPath = Path(outputPath \o <<"posts">>, clash.stem, MdExt) -> <<"Clash body">>
      [] mdPath = Path(outputPath \o <<"posts">>, postsIntro.stem, MdExt) -> <<"Posts body">>
      [] OTHER -> NoContent

\* quartoConfig.listing of _quarto.yml.
Listings ==
    <<[id |-> "blog-posts", sort |-> <<<<"date", "desc">>>>,
       fields |-> <<Field("author", Str("Team"))>>],
      [id |-> "tutorials", sort |-> <<>>, fields |-> <<>>]>>

\* ---------------------------------------------------------------- FileCache
\* The largest capacity a FileCache of the cache specifications is built with.
MaxCapacity == 3

\* Paths handed to the cache. MutablePaths are rewritten or removed by the
\* environment while the cache is in use; the others keep their stat.
CachePaths == {"a.qmd", "b.qmd", "c.qmd"}
MutablePaths == {"a.qmd"}
CacheData == {"d1", "d2"}

NoFile == [exists |-> FALSE, mtimeMs |-> 0, size |-> 0]
Stat(m, s) == [exists |-> TRUE, mtimeMs |-> m, size |-> s]
\* The stats a file of the model can have: two modification times, two sizes.
FileStats == {Stat(m, s) : m \in {1, 2}, s \in {10, 20}}

NoEntry == [path |-> Undefined, data |-> Undefined, mtime |-> 0, size |-> 0]

\* Map.prototype.has / get / delete / set on the insertion-ordered sequence.
MapHas(m, k) == \E i \in 1..Len(m) : m[i].path = k
MapGet(m, k) ==
    IF MapHas(m, k) THEN m[CHOOSE i \in 1..Len(m) : m[i].path = k] ELSE NoEntry
\* A delete that also drops the keys inserted before k.
MapDeleteThrough(m, k) ==
    IF \E i \in 1..Len(m) : m[i].path = k
    THEN SubSeq(m, (CHOOSE i \in 1..Len(m) : m[i].path = k) + 1, Len(m))
    ELSE m
MapDelete(m, k) == SelectSeq(m, LAMBDA e : e.path # k)
\* Map.set keeps the position of a key that is already present.
MapSet(m, e) ==
    IF MapHas(m, e.path)
    THEN [i \in 1..Len(m) |-> IF m[i].path = e.path THEN e ELSE m[i]]
    ELSE Append(m, e)

RemoveAt(s, i) == [j \in 1..(Len(s) - 1) |-> IF j < i THEN s[j] ELSE s[j + 1]]

\* A comparison of the modification time alone.
FreshMtime(entry, st) == st.exists /\ st.mtimeMs = entry.mtime

\* The comparison of FileCache.get: the file is there with the stat of the entry.
Fresh(entry, st) == st.exists /\ st.mtimeMs = entry.mtime /\ st.size = entry.size

\* FileCache.get after `await stat(path)`: the cache it leaves.
\* entry is the entry read before the await, st the stat (NoFile: stat threw).
GetCache(m, path, entry, st) ==
    IF Fresh(entry, st)
    THEN MapSet(MapDelete(m, path), entry)
    ELSE MapDelete(m, path)

\* FileCache.get after `await stat(path)`: the value it returns.
GetResult(entry, st) ==
    IF Fresh(entry, st)
    THEN entry.data
    ELSE Undefined

\* The eviction of FileCache.set: `if (this.cache.size >= this.maxSize)`.
Evict(m, cap) ==
    IF Len(m) >= cap /\ Len(m) > 0 THEN Tail(m) ELSE m

\* A set that stores the object after the draft default was written to it.
SetCacheDefaulted(m, cap, path, data, st) ==
    IF ~st.exists
    THEN m
    ELSE MapSet(Evict(m, cap),
                [path |-> path,
                 data |-> IF Has(data, "draft") THEN data ELSE Put(data, "draft", Bool(FALSE)),
                 mtime |-> st.mtimeMs, size |-> st.size])

\* FileCache.set after `await stat(path)`.
SetCache(m, cap, path, data, st) ==
    IF ~st.exists
    THEN m
    ELSE MapSet(Evict(m, cap),
                [path |-> path, data |-> data, mtime |-> st.mtimeMs, size |-> st.size])

NoOp == [op |-> "none", path |-> Undefined, val |-> Undefined, stat |-> NoFile,
         setData |-> Undefined, setStat |-> NoFile, touched |-> <<>>]

\* History: the paths in the order of their last touch, the latest last. A
\* path is touched by a set that stores it and by a get that hits.
Touch(touched, path) == Append(SelectSeq(touched, LAMBDA p : p # path), path)

\* History: what the completed call was, and for a get that directly follows a
\* completed set of the same path on an existing file, that set's data and stat.
Done(op, path, val, st) ==
    [op |-> op, path |-> path, val |-> val, stat |-> st,
     setData |-> IF op = "get" /\ prev.op = "set" /\ prev.path = path /\ prev.stat.exists
                 THEN prev.val ELSE Undefined,
     setStat |-> IF op = "get" /\ prev.op = "set" /\ prev.path = path /\ prev.stat.exists
                 THEN prev.stat ELSE NoFile,
     touched |-> IF (op = "set" /\ st.exists) \/ (op = "get" /\ val # Undefined)
                 THEN Touch(prev.touched, path) ELSE prev.touched]

\* get(path): no entry, returns undefined at once.
GetMiss(path, lim) ==
    /\ Len(ops) < lim
    /\ ~MapHas(cache, path)
    /\ prev' = Done("get", path, Undefined, NoFile)
    /\ UNCHANGED <<cache, maxSize, fs, ops, fnVars, loaderVars>>

\* get(path): an entry is there, the call suspends at stat.
GetCall(path, lim) ==
    /\ Len(ops) < lim
    /\ MapHas(cache, path)
    /\ ops' = Append(ops, [kind |-> "get", path |-> path, data |-> Undefined,
                           entry |-> MapGet(cache, path)])
    /\ UNCHANGED <<cache, maxSize, fs, prev, fnVars, loaderVars>>

\* The stat of a suspended get settles.
GetStatDone(i) ==
    /\ i \in 1..Len(ops)
    /\ ops[i].kind = "get"
    /\ cache' = GetCache(cache, ops[i].path, ops[i].entry, fs[ops[i].path])
    /\ prev' = Done("get", ops[i].path, GetResult(ops[i].entry, fs[ops[i].path]),
                    fs[ops[i].path])
    /\ ops' = RemoveAt(ops, i)
    /\ UNCHANGED <<maxSize, fs, fnVars, loaderVars>>

\* set(path, data): suspends at stat.
SetCall(path, data, lim) ==
    /\ Len(ops) < lim
    /\ ops' = Append(ops, [kind |-> "set", path |-> path, data |-> data,
                           entry |-> NoEntry])
    /\ UNCHANGED <<cache, maxSize, fs, prev, fnVars, loaderVars>>

\* The stat of a suspended set settles.
SetStatDone(i) ==
    /\ i \in 1..Len(ops)
    /\ ops[i].kind = "set"
    /\ cache' = SetCache(cache, maxSize, ops[i].path, ops[i].data, fs[ops[i].path])
    /\ prev' = Done("set", ops[i].path, ops[i].data, fs[ops[i].path])
    /\ ops' = RemoveAt(ops, i)
    /\ UNCHANGED <<maxSize, fs, fnVars, loaderVars>>

\* invalidate(path)
Invalidate(path, lim) ==
    /\ Len(ops) < lim
    /\ cache' = MapDelete(cache, path)
    /\ prev' = Done("invalidate", path, Undefined, NoFile)
    /\ UNCHANGED <<maxSize, fs, ops, fnVars, loaderVars>>

\* clear()
Clear(lim) ==
    /\ Len(ops) < lim
    /\ cache' = <<>>
    /\ prev' = Done("clear", Undefined, Undefined, NoFile)
    /\ UNCHANGED <<maxSize, fs, ops, fnVars, loaderVars>>

\* The environment rewrites, removes or recreates a file.
FileChange(path, st) ==
    /\ path \in MutablePaths
    /\ st # fs[path]
    /\ fs' = [fs EXCEPT ![path] = st]
    /\ UNCHANGED <<cache, maxSize, ops, prev, fnVars, loaderVars>>

NoConfig == [files |-> <<>>]
\* No listing is being processed.
NoCur ==
    [listing |-> NoListing, files |-> <<>>, defaults |-> <<>>, tasks |-> <<>>,
     normalized |-> <<>>, filePathMap |-> <<>>,
     filterResults |-> <<>>, kept |-> <<>>, filtered |-> <<>>,
     transformResults |-> <<>>, transformed |-> <<>>,
     sorted |-> <<>>, schema |-> <<>>, idx |-> 0]

\* No loader is in use (the specifications of the other parts).
LoaderIdle ==
    /\ config = NoConfig
    /\ run = 0
    /\ pc = "idle"
    /\ todo = <<>>
    /\ cur = NoCur
    /\ store = <<>>
    /\ log = <<>>
    /\ hooks = <<>>
    /\ results = <<>>

CacheInit ==
    /\ FnIdle
    /\ LoaderIdle
    /\ cache = <<>>
    /\ maxSize \in 0..MaxCapacity
    /\ fs = [p \in CachePaths |-> Stat(1, 10)]
    /\ ops = <<>>
    /\ prev = NoOp

\* One caller: a call is made when the one before it has returned.
CacheSerialNext ==
    \/ \E p \in CachePaths : GetMiss(p, 1)
    \/ \E p \in CachePaths : GetCall(p, 1)
    \/ GetStatDone(1)
    \/ \E p \in CachePaths, d \in CacheData : SetCall(p, d, 1)
    \/ SetStatDone(1)
    \/ \E p \in CachePaths : Invalidate(p, 1)
    \/ Clear(1)
    \/ \E p \in MutablePaths, st \in FileStats \cup {NoFile} : FileChange(p, st)

CacheSerialSpec == CacheInit /\ [][CacheSerialNext]_vars

(***************************************************************************)
(* C9: after set(path, data) on an existing file, the next get(path)        *)
(* returns data if the file's modification time and size are as they were   *)
(* at the set and the entry stays cached; if they differ at the get, or the *)
(* file is gone, the get returns undefined and the entry is removed.        *)
(***************************************************************************)
C9_SetThenGet ==
    (prev.op = "get" /\ prev.setData # Undefined) =>
        IF prev.stat = prev.setStat
        THEN /\ prev.val = prev.setData
             /\ MapHas(cache, prev.path)
             /\ MapGet(cache, prev.path).data = prev.setData
        ELSE /\ prev.val = Undefined
             /\ ~MapHas(cache, prev.path)

C9_Witness ==
    /\ prev.op = "get"
    /\ prev.setData \in CacheData
    /\ prev.val = prev.setData

C9_WitnessMiss ==
    /\ prev.op = "get"
    /\ prev.setData \in CacheData
    /\ prev.stat # prev.setStat
    /\ prev.val = Undefined

(***************************************************************************)
(* C10: a FileCache of capacity N holds at most N entries; with N = 0 it    *)
(* never holds an entry.                                                    *)
(***************************************************************************)
C10_AtMostCapacity == Len(cache) <= maxSize

\* The paths a cache holds.
CachedPaths(m) == {m[i].path : i \in 1..Len(m)}
\* The path of m that was touched the longest ago.
LeastRecent(m, touched) ==
    touched[CHOOSE i \in 1..Len(touched) :
                /\ touched[i] \in CachedPaths(m)
                /\ \A j \in 1..(i - 1) : touched[j] \notin CachedPaths(m)]

(***************************************************************************)
(* C11: a set removes a path other than none only when it inserts a new     *)
(* path into a cache that holds maxSize entries, and then it removes the    *)
(* path touched the longest ago (last set or last get hit); a set of a path *)
(* that is in the cache removes no path.                                    *)
(***************************************************************************)
C11_EvictsLeastRecentOnOverflow ==
    [][(ops # <<>> /\ ops[1].kind = "set" /\ ops' = Tail(ops)) =>
        LET path == ops[1].path
            gone == CachedPaths(cache) \ CachedPaths(cache')
        IN  IF /\ fs[path].exists
               /\ ~MapHas(cache, path)
               /\ Len(cache) >= maxSize
               /\ cache # <<>>
            THEN gone = {LeastRecent(cache, prev.touched)}
            ELSE gone = {}]_vars

\* The entries of m other than path's, in their order.
Others(m, path) == SelectSeq(m, LAMBDA e : e.path # path)

(***************************************************************************)
(* C21: invalidate(path) removes the entry of path and leaves the other     *)
(* entries and their order as they were; clear() leaves the cache empty; a  *)
(* set whose stat fails returns without an error and leaves the cache as it *)
(* was.                                                                     *)
(***************************************************************************)
C21_OperationsChangeWhatTheyName ==
    [][/\ (ops' = ops /\ fs' = fs /\ prev'.op = "invalidate") =>
            /\ ~MapHas(cache', prev'.path)
            /\ cache' = Others(cache, prev'.path)
       /\ (ops' = ops /\ fs' = fs /\ prev'.op = "clear") => cache' = <<>>
       /\ (ops # <<>> /\ ops[1].kind = "set" /\ ops' = Tail(ops)
                /\ ~fs[ops[1].path].exists) =>
            /\ cache' = cache
            /\ prev'.op = "set"]_vars

\* Three paths were cached and the second of them was invalidated: the first
\* and the third are left, in that order.
C21_Witness ==
    /\ prev.op = "invalidate"
    /\ Len(prev.touched) = 3
    /\ prev.touched[2] = prev.path
    /\ Len(cache) = 2
    /\ cache[1].path = prev.touched[1]
    /\ cache[2].path = prev.touched[3]

\* --------------------------------------------- FileCache, concurrent callers
\* The largest number of calls suspended at their stat at the same time.
MaxOps == 2

\* The paths the concurrent callers use.
SharedPaths == {"a.qmd", "b.qmd"}

CacheConcurrentNext ==
    \/ \E p \in SharedPaths : GetMiss(p, MaxOps)
    \/ \E p \in SharedPaths : GetCall(p, MaxOps)
    \/ \E i \in 1..MaxOps : GetStatDone(i)
    \/ \E p \in SharedPaths, d \in CacheData : SetCall(p, d, MaxOps)
    \/ \E i \in 1..MaxOps : SetStatDone(i)
    \/ \E p \in SharedPaths : Invalidate(p, MaxOps + 1)
    \/ Clear(MaxOps + 1)
    \/ \E p \in MutablePaths, st \in {Stat(1, 10), Stat(2, 10), NoFile} : FileChange(p, st)

CacheConcurrentSpec == CacheInit /\ [][CacheConcurrentNext]_vars

(***************************************************************************)
(* C12: a get that resumes from its stat acts on the cache as it is then:   *)
(* it does not put back an entry that was removed (invalidated) while it    *)
(* was suspended, and it neither overwrites nor deletes an entry a set has  *)
(* stored for its path in the meantime.                                     *)
(***************************************************************************)
C12_SuspendedGetIsAtomic ==
    [][\A i \in 1..Len(ops) :
        (ops[i].kind = "get" /\ ops' = RemoveAt(ops, i)) =>
            LET path == ops[i].path IN
            /\ ~MapHas(cache, path) => ~MapHas(cache', path)
            /\ (MapHas(cache, path) /\ MapGet(cache, path) # ops[i].entry) =>
                    /\ MapHas(cache', path)
                    /\ MapGet(cache', path) = MapGet(cache, path)]_vars

\* ------------------------------------------- applyFieldMappings, on its own
\* The largest number of keys of a metadata object handed to the mapper.
MaxKeys == 3

MetaKeys == {"date", "pubDate", "cover"}
MetaValues == {Str("v1"), Str("v2"), Undef}

\* The objects of at most n distinct keys, in every insertion order.
Objects(K, V, n) ==
    {o \in UNION {[1..m -> [k : K, v : V]] : m \in 0..n} :
        \A i, j \in 1..Len(o) : i # j => o[i].k # o[j].k}

\* Tables handed to the mapper: defaults merged with a caller's table, and two
\* tables used as they are (a swap and the empty table).
MappingTables ==
    {mergeFieldMappings(NoMappings),
     mergeFieldMappings("date" :> "publishedAt"),
     mergeFieldMappings("cover" :> "date"),
     mergeFieldMappings("cover" :> "pubDate"),
     ("cover" :> "date") @@ ("date" :> "cover"),
     NoMappings}

CacheIdle ==
    /\ cache = <<>>
    /\ maxSize = 0
    /\ fs = [p \in CachePaths |-> Stat(1, 10)]
    /\ ops = <<>>
    /\ prev = NoOp

MappingInit ==
    /\ CacheIdle
    /\ LoaderIdle
    /\ arg \in {[applied |-> FALSE, fn |-> "applyFieldMappings", metadata |-> o,
                 mappings |-> t, filePath |-> "posts/a.qmd"] :
                    o \in Objects(MetaKeys, MetaValues, MaxKeys), t \in MappingTables}
    /\ res = NotApplied

ApplyFieldMappings ==
    /\ ~arg.applied
    /\ arg.fn = "applyFieldMappings"
    /\ res' = applyFieldMappings(arg.metadata, arg.mappings, arg.filePath)
    /\ arg' = [arg EXCEPT !.applied = TRUE]
    /\ UNCHANGED <<cacheVars, loaderVars>>

MappingNext == ApplyFieldMappings

MappingSpec == MappingInit /\ [][MappingNext]_vars

\* key has a mapping to a different target in table t.
Renamed(t, key) == key \in DOMAIN t /\ t[key] # key
\* The i-th key of o is renamed by t to a key that o holds with a value.
Collides(o, t, i) ==
    /\ Renamed(t, o[i].k)
    /\ Has(o, t[o[i].k])
    /\ Get(o, t[o[i].k]) # Undef
\* key is the target to which t renames some other key of o.
IsTarget(o, t, key) ==
    \E j \in 1..Len(o) : Renamed(t, o[j].k) /\ t[o[j].k] = key

C5_ThrowsExactlyOnCollision ==
    /\ res.threw <=> \E i \in 1..Len(arg.metadata) : Collides(arg.metadata, arg.mappings, i)
    /\ res.threw =>
        /\ res.error.name = "FieldMappingConflictError"
        /\ res.error.filePath = arg.filePath
        /\ \E i \in 1..Len(arg.metadata) :
            /\ Collides(arg.metadata, arg.mappings, i)
            /\ res.error.quartoField = arg.metadata[i].k
            /\ res.error.mappedField = arg.mappings[arg.metadata[i].k]

C5_WitnessThrow ==
    /\ arg.applied
    /\ arg.fn = "applyFieldMappings"
    /\ res.threw
    /\ res.error = FieldMappingConflictError("date", "pubDate", "posts/a.qmd")

\* The name the i-th key of o ends up under.
TargetOf(o, t, i) == IF Renamed(t, o[i].k) THEN t[o[i].k] ELSE o[i].k

(***************************************************************************)
(* C27: applyFieldMappings throws FieldMappingConflictError whenever two    *)
(* keys of the metadata end up under the same name, and when it returns the *)
(* result has as many keys as the metadata.                                 *)
(***************************************************************************)
C27_NoFieldDropped ==
    (arg.applied /\ arg.fn = "applyFieldMappings") =>
        /\ (\E i, j \in 1..Len(arg.metadata) :
                /\ i # j
                /\ TargetOf(arg.metadata, arg.mappings, i)
                        = TargetOf(arg.metadata, arg.mappings, j)) =>
                (res.threw /\ res.error.name = "FieldMappingConflictError")
        /\ ~res.threw => Len(res.value) = Len(arg.metadata)

\* ----------------------------------------------- generateSchema, on its own
\* The largest number of documents handed to generateSchema.
MaxDocs == 2

\* One property of a document, or none when the document does not have it.
Absent == [t |-> "absent", v |-> ""]
Prop(k, v) == IF v = Absent THEN <<>> ELSE <<[k |-> k, v |-> v]>>

\* The documents handed to generateSchema: any of title, pubDate, date, draft
\* and a field "level" that is no common field, each present or not.
SchemaDocs ==
    {Prop("title", t) \o Prop("pubDate", p) \o Prop("date", d) \o Prop("level", l)
        \o Prop("draft", r) :
        t \in {Absent, Str("T")},
        p \in {Absent, DateV("2025-01-01")},
        d \in {Absent, DateV("2025-03-01")},
        l \in {Absent, Undef, Str("x"), Num("5")},
        r \in {Absent, Bool(TRUE)}}

SchemaInit ==
    /\ CacheIdle
    /\ LoaderIdle
    /\ arg \in {[applied |-> FALSE, fn |-> "generateSchema", documents |-> ds] :
                    ds \in UNION {[1..n -> SchemaDocs] : n \in 0..MaxDocs}}
    /\ res = NotApplied

GenerateSchema ==
    /\ ~arg.applied
    /\ arg.fn = "generateSchema"
    /\ res' = Returned(generateSchema(arg.documents))
    /\ arg' = [arg EXCEPT !.applied = TRUE]
    /\ UNCHANGED <<cacheVars, loaderVars>>

SchemaNext == GenerateSchema

SchemaSpec == SchemaInit /\ [][SchemaNext]_vars

\* The type the schema gives the field.
TypeOf(schema, name) == schema[CHOOSE i \in 1..Len(schema) : schema[i].name = name].type
\* The field has a defined value in some but not all of the documents, or in none.
InStrictSubset(documents, name) ==
    \E d \in 1..Len(documents) : Get(documents[d], name) = Undef

(***************************************************************************)
(* C16: in the schema generateSchema returns, every field other than title  *)
(* and pubDate that lacks a defined value in some document accepts an       *)
(* absent value; title is always there with its built-in type, and so is    *)
(* pubDate unless the documents have a date field, which then is there.     *)
(***************************************************************************)
C16_OptionalAndGuaranteedFields ==
    (arg.applied /\ arg.fn = "generateSchema") =>
        LET schema == res.value IN
        /\ \A f \in 1..Len(schema) :
            ( /\ schema[f].name \notin {"title", "pubDate"}
              /\ InStrictSubset(arg.documents, schema[f].name) ) =>
                Accepts(schema[f].type, Undef)
        /\ SchemaHas(schema, "title")
        /\ TypeOf(schema, "title") = commonFields["title"]
        /\ SchemaHas(schema, "pubDate") \/ SchemaHas(schema, "date")
        /\ SchemaHas(schema, "pubDate") => TypeOf(schema, "pubDate") = commonFields["pubDate"]
        /\ ~SchemaHas(schema, "pubDate") =>
                \E d \in 1..Len(arg.documents) : Has(arg.documents[d], "date")

\* No document has a title or a date; one of two has the level: the schema
\* has title and pubDate, and level is an optional string.
C16_Witness ==
    /\ arg.applied
    /\ arg.fn = "generateSchema"
    /\ arg.documents = <<Prop("level", Str("x")), Prop("draft", Bool(TRUE))>>
    /\ SchemaHas(res.value, "title")
    /\ SchemaHas(res.value, "pubDate")
    /\ TypeOf(res.value, "level") = ZType("string", TRUE, FALSE)

\* The documents of a listing with a field "keywords" that is no common
\* field: a string, a number, null, or an array of strings, of numbers or of
\* both.
InferDocs ==
    {Prop("title", Str("T")) \o Prop("pubDate", DateV("2025-01-01")) \o Prop("keywords", k) :
        k \in {Absent, Str("k"), Num("5"), Null, Arr(<<>>), Arr(<<Str("a")>>),
               Arr(<<Num("1")>>), Arr(<<Str("a"), Num("1")>>)}}

InferInit ==
    /\ CacheIdle
    /\ LoaderIdle
    /\ arg \in {[applied |-> FALSE, fn |-> "generateSchema", documents |-> ds] :
                    ds \in UNION {[1..n -> InferDocs] : n \in 0..MaxDocs}}
    /\ res = NotApplied

InferNext == GenerateSchema

InferSpec == InferInit /\ [][InferNext]_vars

(***************************************************************************)
(* C26: the schema generateSchema returns accepts, on every field that is   *)
(* no common field, the value of every document it was inferred from, also  *)
(* when the field holds arrays whose element types differ.                  *)
(***************************************************************************)
C26_InferredSchemaAcceptsSources ==
    (arg.applied /\ arg.fn = "generateSchema") =>
        \A f \in 1..Len(res.value), d \in 1..Len(arg.documents) :
            res.value[f].name \notin DOMAIN commonFields =>
                Accepts(res.value[f].type, Get(arg.documents[d], res.value[f].name))

\* --------------------------------------- applySortConfiguration, on its own
\* The largest number of entries handed to applySortConfiguration.
MaxEntries == 3

\* The values an entry has under the sort keys, each present or not; the
\* values of one key are of one type.
SortedValues ==
    [date : {Absent, DateV("2025-01-01"), DateV("2025-03-01")},
     title : {Absent, Str("Alpha"), Str("Beta")}]

\* The entries handed over: entry i also carries its position in the input
\* under "pos", which is no sort key.
SortInputs ==
    {[i \in 1..Len(f) |-> Prop("date", f[i].date) \o Prop("title", f[i].title)
                             \o <<[k |-> "pos", v |-> [t |-> "position", v |-> i]]>>] :
        f \in UNION {[1..m -> SortedValues] : m \in 0..MaxEntries}}

\* listing.sort: one key, a key with a direction, or two keys.
SortConfigs ==
    {<<>>,
     <<<<"date">>>>, <<<<"date", "desc">>>>, <<<<"title", "asc">>>>, <<<<"title", "DESC">>>>,
     <<<<"date">>, <<"title">>>>, <<<<"date", "desc">>, <<"title">>>>,
     <<<<"title">>, <<"date", "desc">>>>, <<<<"date", "desc">>, <<"title", "desc">>>>}

SortInit ==
    /\ CacheIdle
    /\ LoaderIdle
    /\ arg \in {[applied |-> FALSE, fn |-> "applySortConfiguration", entries |-> es,
                 sortConfig |-> sc] :
                    es \in SortInputs, sc \in SortConfigs}
    /\ res = NotApplied

ApplySortConfiguration ==
    /\ ~arg.applied
    /\ arg.fn = "applySortConfiguration"
    /\ res' = Returned(applySortConfiguration(arg.entries, arg.sortConfig))
    /\ arg' = [arg EXCEPT !.applied = TRUE]
    /\ UNCHANGED <<cacheVars, loaderVars>>

SortNext == ApplySortConfiguration

SortSpec == SortInit /\ [][SortNext]_vars

\* The position in the input of an entry of the result.
PosOf(entry) == Get(entry, "pos").v
\* How two entries stand on one key: "tie" (both missing or equal), or which
\* of them the key puts first.
KeyDesc(key) == Len(key) >= 2 /\ key[2] \in {"desc", "DESC"}
OnKey(a, b, key) ==
    LET x == Get(a, key[1])
        y == Get(b, key[1])
        less == IF x.t = "date" THEN DateTime[x.v] < DateTime[y.v]
                ELSE Collation[x.v] < Collation[y.v]
    IN  IF x = Undef /\ y = Undef THEN "tie"
        ELSE IF y = Undef THEN "a"
        ELSE IF x = Undef THEN "b"
        ELSE IF x = y THEN "tie"
        ELSE IF less = KeyDesc(key) THEN "b" ELSE "a"
\* The first key on which the two entries do not tie decides; "tie" if none.
RECURSIVE Decided(_, _, _)
Decided(a, b, keys) ==
    IF keys = <<>> THEN "tie"
    ELSE IF OnKey(a, b, Head(keys)) # "tie" THEN OnKey(a, b, Head(keys))
    ELSE Decided(a, b, Tail(keys))

(***************************************************************************)
(* C17: the result of applySortConfiguration is a permutation of the input  *)
(* in which no entry stands before one that the sort keys, taken in         *)
(* sequence, put first: on a key a missing value is behind a present one    *)
(* whatever the direction, desc reverses the comparison of that key only, a *)
(* tie goes to the next key, and entries that tie on all keys keep their    *)
(* input order.                                                             *)
(***************************************************************************)
C17_SortedStablePermutation ==
    (arg.applied /\ arg.fn = "applySortConfiguration") =>
        LET out == res.value IN
        /\ Len(out) = Len(arg.entries)
        /\ \A k \in 1..Len(out) : out[k] = arg.entries[PosOf(out[k])]
        /\ \A k, l \in 1..Len(out) : k # l => PosOf(out[k]) # PosOf(out[l])
        /\ \A k, l \in 1..Len(out) :
            k < l =>
                /\ Decided(out[k], out[l], arg.sortConfig) # "b"
                /\ Decided(out[k], out[l], arg.sortConfig) = "tie" =>
                        PosOf(out[k]) < PosOf(out[l])

\* Under "date desc" then "title": the later date first, the two entries of
\* the same date by title, the entry without a date last.
C17_Witness ==
    /\ arg.applied
    /\ arg.fn = "applySortConfiguration"
    /\ arg.sortConfig = <<<<"date", "desc">>, <<"title">>>>
    /\ Len(arg.entries) = 3
    /\ Get(arg.entries[1], "date") = Undef
    /\ Get(arg.entries[2], "date") = DateV("2025-01-01")
    /\ Get(arg.entries[3], "date") = DateV("2025-01-01")
    /\ Get(arg.entries[2], "title") = Str("Beta")
    /\ Get(arg.entries[3], "title") = Str("Alpha")
    /\ <<PosOf(res.value[1]), PosOf(res.value[2]), PosOf(res.value[3])>> = <<3, 2, 1>>

\* ------------------------------- extractMetadata and normalizeMetadata, on their own
\* The headers handed to extractMetadata: title and date in several forms or
\* not there, draft as a boolean, as a string or not there.
NormalizeInputs ==
    {Prop("title", t) \o Prop("date", d) \o Prop("draft", r) :
        t \in {Absent, Str("Alpha")},
        d \in {Absent, Str("2025-01-01"), DateV("2025-03-01"), Str("soon")},
        r \in {Absent, Bool(TRUE), Bool(FALSE), Str("true"), Str("false")}}

NormalizeInit ==
    /\ CacheIdle
    /\ LoaderIdle
    /\ arg \in {[applied |-> FALSE, fn |-> "normalizeMetadata", frontmatter |-> fm,
                 filePath |-> f, fieldMappings |-> mergeFieldMappings(t),
                 listingDefaults |-> ld] :
                    fm \in NormalizeInputs, f \in {alpha, beta},
                    t \in {NoMappings, "date" :> "publishedAt", "draft" :> "isDraft"},
                    ld \in {<<>>, <<[k |-> "author", v |-> Str("Team")]>>}}
    /\ res = NotApplied

\* normalizeMetadata(extractMetadata(frontmatter), ...), as parseFile and step 7 of load() do.
NormalizeMetadata ==
    /\ ~arg.applied
    /\ arg.fn = "normalizeMetadata"
    /\ res' = normalizeMetadata(extractMetadata(arg.frontmatter), arg.filePath,
                                arg.fieldMappings, arg.listingDefaults)
    /\ arg' = [arg EXCEPT !.applied = TRUE]
    /\ UNCHANGED <<cacheVars, loaderVars>>

NormalizeNext == NormalizeMetadata

NormalizeSpec == NormalizeInit /\ [][NormalizeNext]_vars

(***************************************************************************)
(* C18: for a header whose draft is a boolean, the string "true" or         *)
(* "false", or not there, the normalized entry has a draft field that is a  *)
(* boolean, and it is false when the header had none.                       *)
(***************************************************************************)
C18_DraftIsBoolean ==
    (arg.applied /\ arg.fn = "normalizeMetadata") =>
        /\ ~res.threw
        /\ Has(res.value.data, "draft")
        /\ Get(res.value.data, "draft") \in {Bool(TRUE), Bool(FALSE)}
        /\ ~Has(arg.frontmatter, "draft") => Get(res.value.data, "draft") = Bool(FALSE)

\* A header with draft: "true" (a string) was normalized to draft: true.
C18_Witness ==
    /\ arg.applied
    /\ arg.fn = "normalizeMetadata"
    /\ Get(arg.frontmatter, "draft") = Str("true")
    /\ arg.fieldMappings = mergeFieldMappings(NoMappings)
    /\ ~res.threw
    /\ Get(res.value.data, "draft") = Bool(TRUE)

(***************************************************************************)
(* C30: with the default field mappings, a draft given as false or as the   *)
(* string "false" is normalized to draft = false, and one given as true or  *)
(* as the string "true" to draft = true.                                    *)
(***************************************************************************)
C30_DraftTruthValue ==
    (/\ arg.applied
     /\ arg.fn = "normalizeMetadata"
     /\ arg.fieldMappings = mergeFieldMappings(NoMappings)
     /\ ~res.threw) =>
        LET stated == Get(arg.frontmatter, "draft")
            draft == Get(res.value.data, "draft")
        IN  /\ stated \in {Bool(FALSE), Str("false")} => draft = Bool(FALSE)
            /\ stated \in {Bool(TRUE), Str("true")} => draft = Bool(TRUE)

\* ------------------------------------------------------- generateSlug, on its own
\* File names are built from at most MaxSegments pieces.
MaxSegments == 3
NameSegments ==
    {<<"2", "0", "2", "5", "-", "1", "1", "-", "2", "4", "-">>,
     <<"2", "0", "2", "5", "-", "0", "1", "-", "0", "2", "-">>,
     <<"M", "y", " ", "C", "o", "o", "l", " ", "P", "o", "s", "t", "!">>,
     <<"p", "o", "s", "t">>, <<"-">>, <<"_">>, <<" ">>, <<"!">>}

RECURSIVE Concat(_)
Concat(pieces) == IF pieces = <<>> THEN <<>> ELSE Head(pieces) \o Concat(Tail(pieces))

FileNames == {Concat(f) : f \in UNION {[1..n -> NameSegments] : n \in 1..MaxSegments}}

SlugInit ==
    /\ CacheIdle
    /\ LoaderIdle
    /\ arg \in {[applied |-> FALSE, fn |-> "generateSlug",
                 filePath |-> Path(quartoRoot \o <<"posts">>, name, QmdExt)] :
                    name \in FileNames}
    /\ res = NotApplied

\* generateSlug(filePath)
GenerateSlug ==
    /\ ~arg.applied
    /\ arg.fn = "generateSlug"
    /\ res' = Returned(<<generateSlug(arg.filePath)>>)
    /\ arg' = [arg EXCEPT !.applied = TRUE]
    /\ UNCHANGED <<cacheVars, loaderVars>>

\* generateSlug of the file named after the identifier: id + ".qmd" in the
\* same directory.
GenerateSlugAgain ==
    /\ arg.applied
    /\ arg.fn = "generateSlug"
    /\ Len(res.value) = 1
    /\ res' = Returned(Append(res.value,
                    generateSlug(Path(arg.filePath.dir, res.value[1], QmdExt))))
    /\ UNCHANGED <<arg, cacheVars, loaderVars>>

SlugNext == GenerateSlug \/ GenerateSlugAgain

SlugSpec == SlugInit /\ [][SlugNext]_vars

NameSegments_Example ==
    <<"2", "0", "2", "5", "-", "1", "1", "-", "2", "4", "-">>
        \o <<"M", "y", " ", "C", "o", "o", "l", " ", "P", "o", "s", "t", "!">>

\* "2025-11-24-My Cool Post!.qmd" yields "my-cool-post".
SlugOfExample ==
    (/\ arg.applied
     /\ arg.fn = "generateSlug"
     /\ arg.filePath.stem = NameSegments_Example) =>
        res.value[1] = <<"m", "y", "-", "c", "o", "o", "l", "-", "p", "o", "s", "t">>

(***************************************************************************)
(* C19: the identifier derived from a file named after an already derived   *)
(* identifier is that same identifier, for every file name, and             *)
(* "2025-11-24-My Cool Post!.qmd" yields "my-cool-post".                    *)
(***************************************************************************)
C19_SlugIdempotent ==
    /\ SlugOfExample
    /\ (arg.applied /\ arg.fn = "generateSlug" /\ Len(res.value) = 2) =>
            res.value[2] = res.value[1]

\* --------------------------------- listing defaults and validation, on their own
\* Listings of one document with the keys of the documented examples.
DefaultsListings ==
    {[id |-> "blog-posts", sort |-> <<>>, fields |-> Prop("type", t) \o Prop("categories", c)
                                                    \o Prop("author", a)] :
        t \in {Absent, Str("grid")},
        c \in {Absent, Bool(TRUE), Str("numbered")},
        a \in {Absent, Str("Team")}}

DefaultsInit ==
    /\ CacheIdle
    /\ LoaderIdle
    /\ arg \in {[applied |-> FALSE, fn |-> "validateEntry", frontmatter |-> fm,
                 filePath |-> alpha, listing |-> l] :
                    fm \in NormalizeInputs, l \in DefaultsListings}
    /\ res = NotApplied

\* Steps 7, 11 and 12 of load() for a listing of one file: the entry passes
\* validation or not, with the listing's defaults and with none.
Validates(frontmatter, filePath, defaults) ==
    LET n == normalizeMetadata(extractMetadata(frontmatter), filePath,
                               mergeFieldMappings(NoMappings), defaults)
    IN  /\ ~n.threw
        /\ ~validateEntryOrThrow(n.value.data, createListingSchema(<<n.value.data>>)).threw

ValidateWithDefaults ==
    /\ ~arg.applied
    /\ arg.fn = "validateEntry"
    /\ res' = Returned([inherited |-> Validates(arg.frontmatter, arg.filePath,
                                                extractListingDefaults(arg.listing)),
                        plain |-> Validates(arg.frontmatter, arg.filePath, <<>>)])
    /\ arg' = [arg EXCEPT !.applied = TRUE]
    /\ UNCHANGED <<cacheVars, loaderVars>>

DefaultsNext == ValidateWithDefaults

DefaultsSpec == DefaultsInit /\ [][DefaultsNext]_vars

(***************************************************************************)
(* C29: an entry that passes validation without the listing's defaults      *)
(* passes it with them, also for a listing that declares categories: true.  *)
(***************************************************************************)
C29_DefaultsKeepEntriesValid ==
    (arg.applied /\ arg.fn = "validateEntry") =>
        (res.value.plain => res.value.inherited)

\* ---------------------------------------------- auto-render, on its own
\* The largest number of loads of one loader.
MaxLoads == 3

\* config.autoRender: undefined, false, true or an object; in an object a
\* command or format of "" and hasArgs = FALSE stand for a property left out.
\* args is the array the caller wrote.
AutoRender(given, enabled, command, hasArgs, args, format) ==
    [given |-> given, enabled |-> enabled, command |-> command, hasArgs |-> hasArgs,
     args |-> args, format |-> format]
AutoRenderConfigs ==
    {AutoRender(g, FALSE, "", FALSE, <<>>, "") : g \in {"undefined", "false", "true"}}
    \cup {AutoRender("object", e, c, FALSE, <<>>, f) :
            e \in BOOLEAN, c \in {"", "quarto-cli"}, f \in {"", "gfm", "html"}}
    \cup {AutoRender("object", e, c, TRUE, a, f) :
            e \in BOOLEAN, c \in {"", "quarto-cli"}, f \in {"", "gfm", "html"},
            a \in {<<"render">>, <<"render", "--quiet">>}}

\* An args array of the render options: the caller's array itself (its
\* elements are then those the array holds at the time) or a new array.
CallerArray == [ref |-> "caller", elems |-> <<>>]
NewArray(elems) == [ref |-> "new", elems |-> elems]

normalizeAutoRenderConfig(autoRender) ==
    CASE autoRender.given \in {"undefined", "false"} ->
            [enabled |-> FALSE, command |-> "", args |-> NewArray(<<>>), format |-> ""]
      [] autoRender.given = "true" ->
            [enabled |-> TRUE, command |-> "quarto", args |-> NewArray(<<"render">>),
             format |-> "gfm"]
      [] OTHER ->
            [enabled |-> autoRender.enabled,
             command |-> IF autoRender.command # "" THEN autoRender.command ELSE "quarto",
             args |-> IF autoRender.hasArgs THEN CallerArray ELSE NewArray(<<"render">>),
             format |-> IF autoRender.format # "" THEN autoRender.format ELSE "gfm"]

\* renderQuarto: the args array after `args.push('--to', options.format)`,
\* callerArgs being what the caller's array holds.
PushedArgs(options, callerArgs) ==
    (IF options.args.ref = "caller" THEN callerArgs ELSE options.args.elems)
        \o (IF options.format # "" THEN <<"--to", options.format>> ELSE <<>>)

RenderInit ==
    /\ CacheIdle
    /\ LoaderIdle
    /\ arg \in {[applied |-> FALSE, fn |-> "renderQuarto", autoRender |-> a,
                 callerArgs |-> a.args, loads |-> 0, spawned |-> <<>>] :
                    a \in AutoRenderConfigs}
    /\ res = NotApplied

\* Step 0 of a load(): normalizeAutoRenderConfig and, when enabled,
\* renderQuarto; the command is installed or not, and exits with the code.
RenderLoad(installed, code) ==
    /\ arg.fn = "renderQuarto"
    /\ arg.loads < MaxLoads
    /\ LET renderOptions == normalizeAutoRenderConfig(arg.autoRender)
           args == PushedArgs(renderOptions, arg.callerArgs)
       IN  IF ~renderOptions.enabled
           THEN /\ arg' = [arg EXCEPT !.applied = TRUE, !.loads = @ + 1]
                /\ res' = Returned(<<>>)
           ELSE IF ~installed
           THEN /\ arg' = [arg EXCEPT !.applied = TRUE, !.loads = @ + 1]
                /\ res' = Threw([NoError EXCEPT !.name = "Error"])
           ELSE /\ arg' = [arg EXCEPT
                             !.applied = TRUE,
                             !.loads = @ + 1,
                             !.callerArgs = IF renderOptions.args.ref = "caller"
                                            THEN args ELSE @,
                             !.spawned = Append(@, [command |-> renderOptions.command,
                                                    args |-> args])]
                /\ res' = IF code = 0 THEN Returned(<<>>)
                          ELSE Threw([NoError EXCEPT !.name = "Error"])
    /\ UNCHANGED <<cacheVars, loaderVars>>

RenderNext == \E installed \in BOOLEAN, code \in {0, 1} : RenderLoad(installed, code)

RenderSpec == RenderInit /\ [][RenderNext]_vars

(***************************************************************************)
(* C28: with autoRender enabled and an args list given by the caller, every *)
(* load runs the command with those args followed by one "--to <format>",   *)
(* and the caller's list is as the caller wrote it.                         *)
(***************************************************************************)
C28_SameArgsEveryLoad ==
    (/\ arg.fn = "renderQuarto"
     /\ arg.autoRender.given = "object"
     /\ arg.autoRender.enabled
     /\ arg.autoRender.hasArgs) =>
        /\ arg.callerArgs = arg.autoRender.args
        /\ \A i \in 1..Len(arg.spawned) :
                arg.spawned[i].args =
                    arg.autoRender.args
                        \o <<"--to", IF arg.autoRender.format # ""
                                     THEN arg.autoRender.format ELSE "gfm">>

\* ------------------------------------------------------------------ load()
\* The largest number of files the glob of blog-posts matches.
MaxFiles == 2

\* new FileCache(cacheEnabled ? 500 : 0)
DefaultCapacity == 500

\* The loads of a behaviour, one after the other on the same project: a
\* loader with parallel: false loads twice (the second time with the cache
\* the first load has filled), then a new loader with parallel: true loads,
\* then a new loader with parallel: false and cache: false.
Runs == <<[parallel |-> FALSE, reload |-> FALSE, cache |-> TRUE],
          [parallel |-> FALSE, reload |-> TRUE, cache |-> TRUE],
          [parallel |-> TRUE, reload |-> FALSE, cache |-> TRUE],
          [parallel |-> FALSE, reload |-> FALSE, cache |-> FALSE]>>

\* const cacheEnabled = config.cache ?? true, of the loader of the load under way.
cacheEnabled == Runs[run].cache

\* What the glob of blog-posts gives: distinct files in any order.
FileLists ==
    {f \in UNION {[1..n -> Documents] : n \in 0..MaxFiles} :
        \A i, j \in 1..Len(f) : i # j => f[i] # f[j]}

Requests ==
    {[kind |-> "all", ids |-> <<>>],
     [kind |-> "one", ids |-> <<"blog-posts">>],
     [kind |-> "one", ids |-> <<"nope">>],
     [kind |-> "many", ids |-> <<"tutorials", "blog-posts">>],
     [kind |-> "many", ids |-> <<"tutorials", "nope">>]}

Configs ==
    [files : FileLists,
     listings : Requests,
     fieldMappings : {NoMappings, "date" :> "publishedAt"},
     filter : {"none", "notDraft"},
     transform : {"none", "addField"}]

\* resolveListingFiles that finds the one tutorial for every listing.
resolveListingFilesOfTutorials(listing) == <<intro>>

\* resolveListingFiles: the files the listing's contents match.
resolveListingFiles(listing) ==
    IF listing.id = "blog-posts" THEN config.files ELSE <<intro>>

QmdParseError(filePath) ==
    [name |-> "QmdParseError", quartoField |-> "", mappedField |-> "", filePath |-> filePath]

LogEntry(level, what, subject) == [level |-> level, what |-> what, subject |-> subject]

\* load() returns or throws: the outcome is recorded and the next load may start.
Settled(status, error) ==
    /\ results' = Append(results, [status |-> status, error |-> error, calls |-> store])
    /\ run' = run + 1
    /\ pc' = "idle"

\* The catch of load(): log and rethrow.
Rejected(error) ==
    /\ log' = Append(log, LogEntry("error", "load", error.name))
    /\ Settled("rejected", error)

\* A parseFile call: not yet made, or where it is suspended.
NotInvoked == [pc |-> "wait", entry |-> NoEntry, metadata |-> <<>>]
\* parseFile up to its first suspension: the lookup of qmdCache.get in cache m.
InvokeParse(filePath, m) ==
    IF cacheEnabled /\ MapHas(m, filePath)
    THEN [pc |-> "getstat", entry |-> MapGet(m, filePath), metadata |-> <<>>]
    ELSE [pc |-> "read", entry |-> NoEntry, metadata |-> <<>>]

InFlight == \E i \in 1..Len(cur.tasks) : cur.tasks[i].pc \in {"getstat", "read", "setstat"}

\* The tasks once task i has become `task`, the cache then being m: the
\* reduce of the sequential mode calls parseFile for the next file.
AfterTask(tasks, i, task, m) ==
    IF task.pc = "done" /\ pc = "parse" /\ ~Runs[run].parallel /\ i < Len(tasks)
    THEN [tasks EXCEPT ![i] = task, ![i + 1] = InvokeParse(cur.files[i + 1], m)]
    ELSE [tasks EXCEPT ![i] = task]

\* load() is called; a loader that is not reused is built first.
BeginLoad ==
    /\ pc = "idle"
    /\ run \in 1..Len(Runs)
    /\ ~InFlight
    /\ cache' = IF Runs[run].reload THEN cache ELSE <<>>
    /\ maxSize' = IF cacheEnabled THEN DefaultCapacity ELSE 0
    /\ store' = <<>>
    /\ log' = <<>>
    /\ hooks' = <<>>
    /\ cur' = NoCur
    /\ todo' = <<>>
    /\ pc' = "select"
    /\ UNCHANGED <<config, run, results, fs, ops, prev, fnVars>>

\* After parseQuartoYaml: step 3, which listings to load.
SelectListings ==
    /\ pc = "select"
    /\ LET sel == selectListings(config.listings, Listings)
       IN  IF sel.threw
           THEN /\ Rejected(sel.error)
                /\ UNCHANGED todo
           ELSE /\ todo' = sel.value
                /\ pc' = "listing"
                /\ UNCHANGED <<log, run, results>>
    /\ UNCHANGED <<config, cur, store, hooks, cacheVars, fnVars>>

\* The head of the loop over listingsToLoad, up to the parseFile calls; with
\* no listing left, load() returns.
ResolveListing ==
    /\ pc = "listing"
    /\ IF todo = <<>>
       THEN /\ Settled("resolved", NoError)
            /\ UNCHANGED <<todo, cur, log>>
       ELSE LET listing == Head(todo)
                files == resolveListingFiles(listing)
            IN  IF files = <<>>
                THEN /\ log' = Append(log, LogEntry("warn", "no-files", listing.id))
                     /\ todo' = Tail(todo)
                     /\ UNCHANGED <<pc, cur, run, results>>
                ELSE /\ cur' = [NoCur EXCEPT
                                  !.listing = listing,
                                  !.files = files,
                                  !.defaults = extractListingDefaults(listing),
                                  !.tasks = [i \in 1..Len(files) |->
                                                IF Runs[run].parallel \/ i = 1
                                                THEN InvokeParse(files[i], cache)
                                                ELSE NotInvoked]]
                     /\ pc' = "parse"
                     /\ UNCHANGED <<todo, log, run, results>>
    /\ UNCHANGED <<config, store, hooks, cacheVars, fnVars>>

\* parseFile i: the stat of qmdCache.get settles.
ParseGetStat(i) ==
    /\ i \in 1..Len(cur.tasks)
    /\ cur.tasks[i].pc = "getstat"
    /\ LET path == cur.files[i]
           entry == cur.tasks[i].entry
       IN  /\ cache' = GetCache(cache, path, entry, fs[path])
           /\ cur' = [cur EXCEPT !.tasks =
                        AfterTask(@, i,
                            IF Fresh(entry, fs[path])
                            THEN [pc |-> "done", entry |-> entry, metadata |-> entry.data]
                            ELSE [pc |-> "read", entry |-> NoEntry, metadata |-> <<>>],
                            GetCache(cache, path, entry, fs[path]))]
    /\ UNCHANGED <<maxSize, fs, ops, prev, fnVars>>
    /\ UNCHANGED <<config, run, pc, todo, store, log, hooks, results>>

\* parseFile i: readFile settles; parseQmdFile, extractMetadata, qmdCache.set called.
ParseRead(i) ==
    /\ i \in 1..Len(cur.tasks)
    /\ cur.tasks[i].pc = "read"
    /\ LET path == cur.files[i]
       IN  IF ~Parses(path)
           THEN /\ cur' = [cur EXCEPT !.tasks[i].pc = "failed"]
                /\ IF pc = "parse"
                   THEN Rejected(QmdParseError(path))
                   ELSE UNCHANGED <<log, run, pc, results>>
           ELSE /\ cur' = [cur EXCEPT !.tasks =
                             AfterTask(@, i,
                                [pc |-> IF cacheEnabled THEN "setstat" ELSE "done",
                                 entry |-> NoEntry,
                                 metadata |-> extractMetadata(Frontmatter(path))],
                                cache)]
                /\ UNCHANGED <<log, run, pc, results>>
    /\ UNCHANGED <<config, todo, store, hooks, cacheVars, fnVars>>

\* parseFile i: the stat of qmdCache.set settles.
ParseSetStat(i) ==
    /\ i \in 1..Len(cur.tasks)
    /\ cur.tasks[i].pc = "setstat"
    /\ LET path == cur.files[i]
           after == SetCache(cache, maxSize, path, cur.tasks[i].metadata, fs[path])
       IN  /\ cache' = after
           /\ cur' = [cur EXCEPT !.tasks =
                        AfterTask(@, i, [@[i] EXCEPT !.pc = "done"], after)]
    /\ UNCHANGED <<maxSize, fs, ops, prev, fnVars>>
    /\ UNCHANGED <<config, run, pc, todo, store, log, hooks, results>>

\* Step 7, the map over parsedFiles from file i on: the entries and
\* filePathMap, or the error normalizeMetadata throws. An entry carries the
\* file it comes from in src (history).
RECURSIVE NormalizeFrom(_, _, _, _, _, _)
NormalizeFrom(parsedFiles, fieldMappings, defaults, i, entries, filePathMap) ==
    IF i > Len(parsedFiles)
    THEN Returned([entries |-> entries, filePathMap |-> filePathMap])
    ELSE LET filePath == parsedFiles[i].filePath
             n == normalizeMetadata(parsedFiles[i].metadata, filePath, fieldMappings, defaults)
         IN  IF n.threw THEN n
             ELSE NormalizeFrom(parsedFiles, fieldMappings, defaults, i + 1,
                    Append(entries, [id |-> n.value.id, slug |-> n.value.slug,
                                     data |-> n.value.data, src |-> filePath]),
                    MapSet(filePathMap, [path |-> n.value.id, file |-> filePath]))

\* The hook calls made when a stage is entered: all of them at once under
\* Promise.all, the first one in the sequential loop.
InvokedAtOnce(n, parallel) == [i \in 1..n |-> "pending"]
Invoked(n, parallel) ==
    [i \in 1..n |-> IF parallel \/ i = 1 THEN "pending" ELSE "idle"]
HookCalls(hook, entries, parallel) ==
    [i \in 1..(IF parallel THEN Len(entries) ELSE IF entries = <<>> THEN 0 ELSE 1) |->
        [hook |-> hook, src |-> entries[i].src]]

\* filterResults.filter(r => r.keep).map(r => r.entry)
KeptEntries(entries, filterResults) ==
    LET idxs == SelectSeq([i \in 1..Len(entries) |-> i], LAMBDA i : filterResults[i].keep)
    IN  [k \in 1..Len(idxs) |-> entries[idxs[k]]]

\* All parseFile calls have returned: steps 7 and 8 up to the filter calls.
Normalize ==
    /\ pc = "parse"
    /\ \A i \in 1..Len(cur.tasks) : cur.tasks[i].pc = "done"
    /\ LET parsedFiles == [i \in 1..Len(cur.files) |->
                            [filePath |-> cur.files[i], metadata |-> cur.tasks[i].metadata]]
           n == NormalizeFrom(parsedFiles, mergeFieldMappings(config.fieldMappings),
                              cur.defaults, 1, <<>>, <<>>)
       IN  IF n.threw
           THEN /\ Rejected(n.error)
                /\ UNCHANGED <<cur, hooks>>
           ELSE /\ cur' = [cur EXCEPT
                             !.normalized = n.value.entries,
                             !.filePathMap = n.value.filePathMap,
                             !.filterResults =
                                IF config.filter = "none" THEN <<>>
                                ELSE [i \in 1..Len(n.value.entries) |->
                                        [state |-> Invoked(Len(n.value.entries),
                                                           Runs[run].parallel)[i],
                                         keep |-> FALSE]]]
                /\ hooks' = IF config.filter = "none" THEN hooks
                            ELSE hooks \o HookCalls("filter", n.value.entries, Runs[run].parallel)
                /\ pc' = "filter"
                /\ UNCHANGED <<log, run, results>>
    /\ UNCHANGED <<config, todo, store, cacheVars, fnVars>>

\* The filter call for entry i settles.
FilterSettle(i) ==
    /\ pc = "filter"
    /\ i \in 1..Len(cur.filterResults)
    /\ cur.filterResults[i].state = "pending"
    /\ LET entry == cur.normalized[i]
           keep == CallFilter(config.filter, entry.data)
           next == ~Runs[run].parallel /\ i < Len(cur.filterResults)
       IN  /\ cur' = [cur EXCEPT
                        !.filterResults =
                            [j \in 1..Len(@) |->
                                IF j = i THEN [state |-> "settled", keep |-> keep]
                                ELSE IF next /\ j = i + 1 THEN [state |-> "pending", keep |-> FALSE]
                                ELSE @[j]],
                        !.kept = IF ~Runs[run].parallel /\ keep THEN Push(@, entry) ELSE @]
           /\ hooks' = IF next
                       THEN Append(hooks, [hook |-> "filter", src |-> cur.normalized[i + 1].src])
                       ELSE hooks
    /\ UNCHANGED <<config, run, pc, todo, store, log, results, cacheVars, fnVars>>

\* The filter stage is over: filteredEntries, and step 9 up to the transform calls.
FilterDone ==
    /\ pc = "filter"
    /\ \A i \in 1..Len(cur.filterResults) : cur.filterResults[i].state = "settled"
    /\ LET filtered == IF config.filter = "none" THEN cur.normalized
                       ELSE IF Runs[run].parallel
                            THEN KeptEntries(cur.normalized, cur.filterResults)
                            ELSE cur.kept
       IN  /\ cur' = [cur EXCEPT
                        !.filtered = filtered,
                        !.transformResults =
                            IF config.transform = "none" THEN <<>>
                            ELSE [i \in 1..Len(filtered) |->
                                    [state |-> Invoked(Len(filtered), Runs[run].parallel)[i],
                                     entry |-> filtered[i]]]]
           /\ hooks' = IF config.transform = "none" THEN hooks
                       ELSE hooks \o HookCalls("transform", filtered, Runs[run].parallel)
    /\ pc' = "transform"
    /\ UNCHANGED <<config, run, todo, store, log, results, cacheVars, fnVars>>

\* The transform call for entry i settles.
TransformSettle(i) ==
    /\ pc = "transform"
    /\ i \in 1..Len(cur.transformResults)
    /\ cur.transformResults[i].state = "pending"
    /\ LET entry == [cur.filtered[i] EXCEPT !.data = CallTransform(config.transform, @)]
           next == ~Runs[run].parallel /\ i < Len(cur.transformResults)
       IN  /\ cur' = [cur EXCEPT
                        !.transformResults =
                            [j \in 1..Len(@) |->
                                IF j = i THEN [state |-> "settled", entry |-> entry]
                                ELSE IF next /\ j = i + 1 THEN [@[j] EXCEPT !.state = "pending"]
                                ELSE @[j]],
                        !.transformed = IF ~Runs[run].parallel THEN Push(@, entry) ELSE @]
           /\ hooks' = IF next
                       THEN Append(hooks, [hook |-> "transform", src |-> cur.filtered[i + 1].src])
                       ELSE hooks
    /\ UNCHANGED <<config, run, pc, todo, store, log, results, cacheVars, fnVars>>

\* The transform stage is over: transformedEntries, steps 10 and 11.
SortAndSchema ==
    /\ pc = "transform"
    /\ \A i \in 1..Len(cur.transformResults) : cur.transformResults[i].state = "settled"
    /\ LET transformed == IF config.transform = "none" THEN cur.filtered
                          ELSE IF Runs[run].parallel
                               THEN [i \in 1..Len(cur.transformResults) |->
                                        cur.transformResults[i].entry]
                               ELSE cur.transformed
           sorted == LET objects == applySortConfiguration(
                                        [i \in 1..Len(transformed) |-> AsObject(transformed[i])],
                                        cur.listing.sort)
                     IN  [i \in 1..Len(objects) |-> AsEntry(objects[i])]
       IN  cur' = [cur EXCEPT
                     !.transformed = transformed,
                     !.sorted = sorted,
                     !.schema = createListingSchema([i \in 1..Len(sorted) |-> sorted[i].data]),
                     !.idx = 1]
    /\ pc' = "emit"
    /\ UNCHANGED <<config, run, todo, store, log, hooks, results, cacheVars, fnVars>>

\* Step 12 for the entry at cur.idx: read the body, validate, store.set.
EmitEntry ==
    /\ pc = "emit"
    /\ cur.idx <= Len(cur.sorted)
    /\ LET entry == cur.sorted[cur.idx]
           filePath == MapGet(cur.filePathMap, entry.id).file
           mdPath == matchQmdToMd(filePath, quartoRoot, outputPath)
           read == readRenderedMarkdown(Rendered(mdPath))
           body == IF read.threw THEN <<>> ELSE read.value
           warned == IF read.threw
                     THEN Append(log, LogEntry("warn", "no-markdown", entry.id))
                     ELSE log
           validated == validateEntryOrThrow(entry.data, cur.schema)
       IN  IF validated.threw
           THEN /\ log' = Append(warned, LogEntry("error", "entry", entry.id))
                /\ UNCHANGED store
           ELSE /\ log' = warned
                /\ store' = Append(store,
                                [id |-> entry.id, data |-> validated.value, body |-> body,
                                 filePath |-> RelativePath(cwd, mdPath),
                                 src |-> entry.src, listing |-> cur.listing.id])
    /\ cur' = [cur EXCEPT !.idx = @ + 1]
    /\ UNCHANGED <<config, run, pc, todo, hooks, results, cacheVars, fnVars>>

\* The loop over sortedEntries is over: on to the next listing.
NextListing ==
    /\ pc = "emit"
    /\ cur.idx > Len(cur.sorted)
    /\ todo' = Tail(todo)
    /\ pc' = "listing"
    /\ UNCHANGED <<config, run, cur, store, log, hooks, results, cacheVars, fnVars>>

Init ==
    /\ FnIdle
    /\ config \in Configs
    /\ run = 1
    /\ pc = "idle"
    /\ todo = <<>>
    /\ cur = NoCur
    /\ store = <<>>
    /\ log = <<>>
    /\ hooks = <<>>
    /\ results = <<>>
    /\ cache = <<>>
    /\ maxSize = DefaultCapacity
    /\ fs = [p \in QmdFiles |-> Stat(1, 10)]
    /\ ops = <<>>
    /\ prev = NoOp

Next ==
    \/ BeginLoad
    \/ SelectListings
    \/ ResolveListing
    \/ \E i \in 1..MaxFiles : ParseGetStat(i)
    \/ \E i \in 1..MaxFiles : ParseRead(i)
    \/ \E i \in 1..MaxFiles : ParseSetStat(i)
    \/ Normalize
    \/ \E i \in 1..MaxFiles : FilterSettle(i)
    \/ FilterDone
    \/ \E i \in 1..MaxFiles : TransformSettle(i)
    \/ SortAndSchema
    \/ EmitEntry
    \/ NextListing

Spec == Init /\ [][Next]_vars

\* --------------------------------------------------- properties of load()
\* The store.set calls of the load under way that were made for a listing.
CallsOf(calls, listingId) == SelectSeq(calls, LAMBDA c : c.listing = listingId)

\* What store.set is given: id, data and body.
SetCalls(calls) ==
    [i \in 1..Len(calls) |-> [id |-> calls[i].id, data |-> calls[i].data, body |-> calls[i].body]]

ConfiguredIds == [i \in 1..Len(Listings) |-> Listings[i].id]
IsConfigured(id) == \E i \in 1..Len(ConfiguredIds) : ConfiguredIds[i] = id
\* config.listings names a listing that _quarto.yml does not define.
UnknownRequested ==
    /\ config.listings.kind # "all"
    /\ \E i \in 1..Len(config.listings.ids) : ~IsConfigured(config.listings.ids[i])
FirstUnknown ==
    config.listings.ids[CHOOSE i \in 1..Len(config.listings.ids) :
        /\ ~IsConfigured(config.listings.ids[i])
        /\ \A j \in 1..(i - 1) : IsConfigured(config.listings.ids[j])]
\* blog-posts is among the listings the configuration asks for.
BlogRequested ==
    \/ config.listings.kind = "all"
    \/ /\ ~UnknownRequested
       /\ \E i \in 1..Len(config.listings.ids) : config.listings.ids[i] = "blog-posts"
InFiles(path) == \E i \in 1..Len(config.files) : config.files[i] = path

(***************************************************************************)
(* C1: while a listing is emitted, the store.set calls made for it are      *)
(* exactly the entries handled so far that pass validation against the      *)
(* listing's schema, in order, each with the data validation returned: an   *)
(* entry that fails is not stored and those after it still are.             *)
(***************************************************************************)
C1_StoredIffValid ==
    pc = "emit" =>
        LET handled == SubSeq(cur.sorted, 1, cur.idx - 1)
            valid == SelectSeq(handled, LAMBDA e : validateEntry(e.data, cur.schema).success)
            calls == CallsOf(store, cur.listing.id)
        IN  /\ Len(calls) = Len(valid)
            /\ \A k \in 1..Len(valid) :
                /\ calls[k].id = valid[k].id
                /\ calls[k].data = validateEntry(valid[k].data, cur.schema).data

\* An entry failed validation and a later entry of the listing was stored.
C1_Witness ==
    /\ pc = "emit"
    /\ \E k \in 1..(cur.idx - 1) :
        /\ ~validateEntry(cur.sorted[k].data, cur.schema).success
        /\ \E j \in (k + 1)..(cur.idx - 1), c \in 1..Len(store) :
            store[c].src = cur.sorted[j].src

(***************************************************************************)
(* C2: no load rejects because a file failed to parse (QmdParseError) or    *)
(* to map (FieldMappingConflictError): the entry is skipped and the load    *)
(* completes.                                                               *)
(***************************************************************************)
C2_LoadCompletes ==
    \A r \in 1..Len(results) :
        results[r].error.name \notin {"QmdParseError", "FieldMappingConflictError"}

(***************************************************************************)
(* C3: when config.listings names an id that is not configured, every load  *)
(* rejects with ListingNotFoundError carrying that id and all configured    *)
(* ids, no listing is ever processed and store.set is never called.         *)
(***************************************************************************)
C3_UnknownListingRejects ==
    UnknownRequested =>
        /\ store = <<>>
        /\ pc \in {"idle", "select"}
        /\ \A r \in 1..Len(results) :
            /\ results[r].status = "rejected"
            /\ results[r].error = ListingNotFoundError(FirstUnknown, ConfiguredIds)
            /\ results[r].calls = <<>>

\* A load asked for tutorials and then an unknown id has rejected.
C3_Witness ==
    /\ config.listings = [kind |-> "many", ids |-> <<"tutorials", "nope">>]
    /\ Len(results) = Len(Runs)
    /\ results[1].status = "rejected"
    /\ results[1].error.listingId = "nope"

(***************************************************************************)
(* C4: a load with parallel: true and a load with parallel: false of the    *)
(* same configuration and files end the same way with the same sequence of  *)
(* store.set calls (ids, data, bodies), whatever the order in which the     *)
(* concurrent operations settle.                                            *)
(***************************************************************************)
C4_ParallelEqualsSequential ==
    \A r, q \in 1..Len(results) :
        (Runs[r].parallel /\ ~Runs[q].parallel) =>
            /\ results[r].status = results[q].status
            /\ SetCalls(results[r].calls) = SetCalls(results[q].calls)

\* Both loads resolved after filtering, transforming and storing two entries or more.
C4_Witness ==
    /\ Len(results) = Len(Runs)
    /\ config.filter # "none"
    /\ config.transform # "none"
    /\ results[3].status = "resolved"
    /\ Len(CallsOf(results[3].calls, "blog-posts")) >= 2

(***************************************************************************)
(* C6: with fieldMappings {date: 'publishedAt'}, a document with a title    *)
(* and a valid date is stored with publishedAt defined and no pubDate.      *)
(***************************************************************************)
C6_CustomDateTargetEmitted ==
    \A r \in 1..Len(results) :
        ( /\ config.fieldMappings = ("date" :> "publishedAt")
          /\ results[r].status = "resolved"
          /\ BlogRequested
          /\ InFiles(alpha) ) =>
            \E c \in 1..Len(results[r].calls) :
                /\ results[r].calls[c].src = alpha
                /\ Get(results[r].calls[c].data, "publishedAt") # Undef
                /\ ~Has(results[r].calls[c].data, "pubDate")

\* The date a source file's header gives: the value the listing's sort is about.
DateOf(path) == normalizeDate(Get(Frontmatter(path), "date"))
\* Under "date desc" the entry of file p must not come before that of file q.
WrongOrder(p, q) ==
    \/ DateOf(p) = Undef /\ DateOf(q) # Undef
    \/ /\ DateOf(p).t = "date"
       /\ DateOf(q).t = "date"
       /\ DateTime[DateOf(p).v] < DateTime[DateOf(q).v]

(***************************************************************************)
(* C7: the entries of blog-posts, whose sort is "date desc", are stored in  *)
(* descending order of their dates, entries without a date last.            *)
(***************************************************************************)
C7_EmittedInSortOrder ==
    \A r \in 1..Len(results) :
        LET calls == CallsOf(results[r].calls, "blog-posts")
        IN  \A i, j \in 1..Len(calls) : i < j => ~WrongOrder(calls[i].src, calls[j].src)

\* entry => entry.draft !== true, written out.
IsKept(entry) == Get(entry.data, "draft") # Bool(TRUE)
\* entry => ({...entry, customField: 'transformed'}), written out.
WithCustomField(data) ==
    IF Has(data, "customField")
    THEN [i \in 1..Len(data) |->
            IF data[i].k = "customField" THEN Field("customField", Str("transformed")) ELSE data[i]]
    ELSE data \o <<Field("customField", Str("transformed"))>>

(***************************************************************************)
(* C8: the filter stage keeps exactly the entries for which the hook        *)
(* returns true, in order, and all of them without a hook; the transform    *)
(* hook is called on the kept entries only and replaces their data, the id  *)
(* staying; without it the data stays. Two documents, one of them a draft,  *)
(* filtered by the draft flag, give one stored entry.                       *)
(***************************************************************************)
C8_FilterAndTransform ==
    /\ pc \in {"transform", "emit"} =>
        cur.filtered = IF config.filter = "none" THEN cur.normalized
                       ELSE SelectSeq(cur.normalized, IsKept)
    /\ pc = "emit" =>
        /\ Len(cur.transformed) = Len(cur.filtered)
        /\ \A i \in 1..Len(cur.filtered) :
            /\ cur.transformed[i].id = cur.filtered[i].id
            /\ cur.transformed[i].data =
                    IF config.transform = "none" THEN cur.filtered[i].data
                    ELSE WithCustomField(cur.filtered[i].data)
        /\ LET called == SelectSeq(hooks, LAMBDA h : h.hook = "transform"
                                            /\ \E i \in 1..Len(cur.files) : cur.files[i] = h.src)
           IN  IF config.transform = "none" THEN called = <<>>
               ELSE /\ Len(called) = Len(cur.filtered)
                    /\ \A i \in 1..Len(called) : called[i].src = cur.filtered[i].src
    /\ \A r \in 1..Len(results) :
        ( /\ config.files \in {<<alpha, beta>>, <<beta, alpha>>}
          /\ config.filter = "notDraft"
          /\ config.fieldMappings = NoMappings
          /\ BlogRequested ) =>
            /\ results[r].status = "resolved"
            /\ Len(CallsOf(results[r].calls, "blog-posts")) = 1
            /\ CallsOf(results[r].calls, "blog-posts")[1].src = alpha

\* The draft of two documents was filtered out, the other transformed and stored.
C8_Witness ==
    /\ config.files = <<beta, alpha>>
    /\ config.filter = "notDraft"
    /\ config.transform = "addField"
    /\ Len(results) = Len(Runs)
    /\ Len(CallsOf(results[3].calls, "blog-posts")) = 1
    /\ Get(CallsOf(results[3].calls, "blog-posts")[1].data, "customField") = Str("transformed")

\* The rendered file load() reads for an entry of the listing being emitted.
MdOf(entry) == matchQmdToMd(MapGet(cur.filePathMap, entry.id).file, quartoRoot, outputPath)
Unreadable(entry) == Rendered(MdOf(entry)) = NoContent
IsValid(entry) == validateEntry(entry.data, cur.schema).success
\* store.set was called for the entry of the listing being emitted.
StoredNow(entry) ==
    \E c \in 1..Len(store) : store[c].src = entry.src /\ store[c].listing = cur.listing.id

(***************************************************************************)
(* C13: a valid entry whose rendered file cannot be read is stored with an  *)
(* empty body and its validated data, a warning is logged for it, and no    *)
(* load fails with the error of the read.                                   *)
(***************************************************************************)
C13_MissingBodyStoredEmpty ==
    /\ pc = "emit" =>
        \A k \in 1..(cur.idx - 1) :
            LET e == cur.sorted[k] IN
            (Unreadable(e) /\ IsValid(e)) =>
                /\ \E c \in 1..Len(store) :
                    /\ store[c].src = e.src
                    /\ store[c].listing = cur.listing.id
                    /\ store[c].id = e.id
                    /\ store[c].body = <<>>
                    /\ store[c].data = validateEntry(e.data, cur.schema).data
                /\ \E l \in 1..Len(log) : log[l] = LogEntry("warn", "no-markdown", e.id)
    /\ \A r \in 1..Len(results) : results[r].error.name # "Error"

\* A load resolved having stored intro, which is not rendered, with an empty body.
C13_Witness ==
    /\ results # <<>>
    /\ results[1].status = "resolved"
    /\ \E c \in 1..Len(results[1].calls) :
        /\ results[1].calls[c].src = intro
        /\ results[1].calls[c].body = <<>>
        /\ Get(results[1].calls[c].data, "title") = Str("Intro")

(***************************************************************************)
(* C14 as stated: no store.set call is made for an entry whose rendered     *)
(* body cannot be read.                                                     *)
(***************************************************************************)
C14_UnreadableBodySkipped ==
    pc = "emit" =>
        \A k \in 1..(cur.idx - 1) : Unreadable(cur.sorted[k]) => ~StoredNow(cur.sorted[k])

(***************************************************************************)
(* C14, amended: an entry whose rendered body cannot be read is not         *)
(* skipped: store.set is called for it exactly when its data passes         *)
(* validation, and the valid entries behind it are stored too.              *)
(***************************************************************************)
C14_UnreadableBodyStored ==
    pc = "emit" =>
        \A k \in 1..(cur.idx - 1) :
            Unreadable(cur.sorted[k]) =>
                /\ StoredNow(cur.sorted[k]) <=> IsValid(cur.sorted[k])
                /\ \A j \in (k + 1)..(cur.idx - 1) :
                        IsValid(cur.sorted[j]) => StoredNow(cur.sorted[j])

\* An entry with no rendered file was stored and so was a rendered one behind it.
C14_Witness ==
    /\ pc = "emit"
    /\ cur.listing.id = "blog-posts"
    /\ \E k \in 1..(cur.idx - 1), j \in 1..(cur.idx - 1) :
        /\ k < j
        /\ Unreadable(cur.sorted[k])
        /\ StoredNow(cur.sorted[k])
        /\ ~Unreadable(cur.sorted[j])
        /\ StoredNow(cur.sorted[j])

\* Files i and j of the listing, i before j, are given the same identifier.
SameId(i, j) ==
    /\ i < j
    /\ generateSlug(config.files[i]) = generateSlug(config.files[j])
\* The entry the store holds under an identifier after the calls: the last one set.
Held(calls, id) ==
    calls[CHOOSE c \in 1..Len(calls) :
            /\ calls[c].id = id
            /\ \A d \in (c + 1)..Len(calls) : calls[d].id # id]
HasCallFor(calls, path) == \E c \in 1..Len(calls) : calls[c].src = path

(***************************************************************************)
(* C15: when two files of a listing are given the same identifier, the load *)
(* does not fail for it, and once both entries have been stored the store   *)
(* holds under that identifier the entry of the file that is later in the   *)
(* file order.                                                              *)
(***************************************************************************)
C15_LaterFileWins ==
    \A r \in 1..Len(results) :
        \A i, j \in 1..Len(config.files) :
            (BlogRequested /\ SameId(i, j)) =>
                /\ (\A k \in 1..Len(config.files) : config.files[k] \notin {broken, clash})
                        => results[r].status = "resolved"
                /\ ( /\ HasCallFor(results[r].calls, config.files[i])
                      /\ HasCallFor(results[r].calls, config.files[j]) ) =>
                        Held(results[r].calls, generateSlug(config.files[j])).src = config.files[j]

\* Both files named "alpha" were stored, the later one last, with its own body.
C15_Witness ==
    /\ Len(results) = Len(Runs)
    /\ config.files = <<alpha2, alpha>>
    /\ Len(CallsOf(results[3].calls, "blog-posts")) = 2
    /\ Held(results[3].calls, generateSlug(alpha)).src = alpha
    /\ Held(results[3].calls, generateSlug(alpha)).body = <<"Alpha body">>
    /\ Get(Held(results[3].calls, generateSlug(alpha)).data, "title") = Str("Alpha")

\* tutorials is among the listings the configuration asks for.
TutorialsRequested ==
    \/ config.listings.kind = "all"
    \/ /\ ~UnknownRequested
       /\ \E i \in 1..Len(config.listings.ids) : config.listings.ids[i] = "tutorials"
Warned(listingId) ==
    \E i \in 1..Len(log) : log[i] = LogEntry("warn", "no-files", listingId)

\* The listing's file was taken as far as validation: its entry was handed
\* to store.set or its validation error was logged.
Emitted(listingId, filePath) ==
    \/ \E c \in 1..Len(store) :
            store[c].listing = listingId /\ store[c].src = filePath
    \/ \E i \in 1..Len(log) :
            log[i] = LogEntry("error", "entry", generateSlug(filePath))

(***************************************************************************)
(* C20: when blog-posts is requested and resolves to no file, no store.set  *)
(* call is made for it and every load resolves; once a load has returned,   *)
(* the warning is logged and tutorials, requested before or after it, was   *)
(* processed and emitted (stored, with the default field mappings).         *)
(***************************************************************************)
C20_EmptyListingSkipped ==
    (config.files = <<>> /\ BlogRequested) =>
        /\ CallsOf(store, "blog-posts") = <<>>
        /\ \A r \in 1..Len(results) :
            /\ results[r].status = "resolved"
            /\ CallsOf(results[r].calls, "blog-posts") = <<>>
        /\ (pc = "idle" /\ results # <<>>) =>
            /\ Warned("blog-posts")
            /\ TutorialsRequested => Emitted("tutorials", intro)
            /\ (TutorialsRequested /\ config.fieldMappings = NoMappings) =>
                    \E c \in 1..Len(store) :
                        store[c].listing = "tutorials" /\ store[c].src = intro

\* All listings were loaded, blog-posts (the first) had no file, and the
\* load resolved with the tutorial stored after the warning.
C20_Witness ==
    /\ config.files = <<>>
    /\ config.listings.kind = "all"
    /\ pc = "idle"
    /\ results # <<>>
    /\ results[1].status = "resolved"
    /\ Warned("blog-posts")
    /\ CallsOf(results[1].calls, "tutorials") # <<>>

\* The hook invocations of the listing under way that have started and not
\* completed.
FiltersInFlight == {i \in 1..Len(cur.filterResults) : cur.filterResults[i].state = "pending"}
TransformsInFlight ==
    {i \in 1..Len(cur.transformResults) : cur.transformResults[i].state = "pending"}
FiltersStarted == {i \in 1..Len(cur.filterResults) : cur.filterResults[i].state # "idle"}
TransformsStarted ==
    {i \in 1..Len(cur.transformResults) : cur.transformResults[i].state # "idle"}

(***************************************************************************)
(* C22: a filter invocation has started only when every file of the listing *)
(* is parsed and normalized; a transform invocation has started only when   *)
(* every filter invocation has completed; filteredEntries and the sorted    *)
(* entries are built only from completed invocations; in sequential mode at *)
(* most one invocation is in flight.                                        *)
(***************************************************************************)
C22_HooksInStageOrder ==
    /\ FiltersStarted # {} =>
            /\ \A i \in 1..Len(cur.tasks) : cur.tasks[i].pc = "done"
            /\ Len(cur.normalized) = Len(cur.files)
            /\ \A i \in FiltersStarted : cur.normalized[i].src = cur.files[i]
    /\ TransformsStarted # {} =>
            /\ FiltersInFlight = {}
            /\ \A i \in 1..Len(cur.filterResults) : cur.filterResults[i].state = "settled"
    /\ (pc \in {"filter", "transform"} /\ ~Runs[run].parallel) =>
            /\ Cardinality(FiltersInFlight \cup TransformsInFlight) <= 1
            /\ Len(cur.kept) <= Cardinality(FiltersStarted \ FiltersInFlight)
            /\ Len(cur.transformed) <= Cardinality(TransformsStarted \ TransformsInFlight)
    /\ pc = "transform" => FiltersInFlight = {}
    /\ pc = "emit" => FiltersInFlight = {} /\ TransformsInFlight = {}

\* Sequential mode, both hooks configured: the first transform has completed
\* and the second is in flight, after both filter invocations completed.
C22_Witness ==
    /\ pc = "transform"
    /\ run \in 1..Len(Runs)
    /\ ~Runs[run].parallel
    /\ config.filter # "none"
    /\ Len(cur.filterResults) = 2
    /\ Len(cur.transformResults) = 2
    /\ cur.transformResults[1].state = "settled"
    /\ cur.transformResults[2].state = "pending"

(***************************************************************************)
(* C23: every store.set call carries the body and the rendered-file path of *)
(* the source document its data was parsed from, also when several files of *)
(* the listing have the same identifier.                                    *)
(***************************************************************************)
C23_BodyOfSameDocument ==
    \A c \in 1..Len(store) :
        LET mdPath == matchQmdToMd(store[c].src, quartoRoot, outputPath)
            read == readRenderedMarkdown(Rendered(mdPath))
        IN  /\ store[c].filePath = RelativePath(cwd, mdPath)
            /\ store[c].body = IF read.threw THEN <<>> ELSE read.value

(***************************************************************************)
(* C24: an entry stored for one listing is not overwritten by an entry of   *)
(* another listing of the same load: no two store.set calls of a load made  *)
(* for different listings carry the same id.                                *)
(***************************************************************************)
C24_ListingsIndependent ==
    \A i, j \in 1..Len(store) :
        (i < j /\ store[i].id = store[j].id) => store[i].listing = store[j].listing

\* The load under way is the second load of the first loader, and the
\* first resolved.
Reloading == run = 2 /\ pc # "idle" /\ results[1].status = "resolved"

(***************************************************************************)
(* C25: the source files being unchanged, the second load of a loader has   *)
(* every parse served from the cache when the first load resolved, it makes *)
(* the store.set calls of the first load and of a load of a loader built    *)
(* with cache: false, and the cache holds for each path the metadata that   *)
(* parsing the file gives.                                                  *)
(***************************************************************************)
C25_CacheTransparent ==
    /\ \A i \in 1..Len(cache) : cache[i].data = extractMetadata(Frontmatter(cache[i].path))
    /\ Reloading => \A i \in 1..Len(cur.tasks) : cur.tasks[i].pc \notin {"read", "setstat"}
    /\ \A r, q \in 1..Len(results) :
        (Runs[r].reload \/ ~Runs[q].cache) =>
            /\ results[r].status = results[1].status
            /\ results[q].status = results[1].status
            /\ SetCalls(results[r].calls) = SetCalls(results[1].calls)
            /\ SetCalls(results[q].calls) = SetCalls(results[1].calls)

\* The four loads have resolved with the same two blog-posts entries: the
\* second from the cache, the fourth without a cache.
C25_Witness ==
    /\ Len(results) = Len(Runs)
    /\ results[2].status = "resolved"
    /\ Len(CallsOf(results[2].calls, "blog-posts")) = 2
    /\ SetCalls(results[2].calls) = SetCalls(results[4].calls)
    /\ cache = <<>>
    /\ maxSize = 0

====
